---- MODULE Spec2Model ----
(***************************************************************************)
(* Reversi: the Board rules (engine/board.py), the minimax search          *)
(* (engine/minimax_engine.py) and the command driver with its GENMOVE      *)
(* worker thread (engine/base_engine.py).                                  *)
(*                                                                         *)
(* Python objects are modelled with their identity.  The store H has two   *)
(* maps: H.boards, from a Board object's address to its fields, and        *)
(* H.grids, from a grid's address (the list of row lists) to its cells.    *)
(* A Board holds the address of its grid, and so does every history entry, *)
(* so that sharing a grid between two holders is something the model can   *)
(* express and a copy is something an operation has to make.               *)
(***************************************************************************)
EXTENDS Integers, Sequences, FiniteSets, TLC

VARIABLES
    heap,     \* the store: [boards |-> address -> Board fields, grids |-> address -> cells]
    board,    \* address of the Board under test / of the engine's self.board
    copy,     \* <<address>> of a Board made by board.clone(), <<>> before
    last,     \* the most recent call on a Board or of the search: name, arguments, return value
    engine,   \* the fields of the MinimaxEngine, <<>> where none is constructed
    workers,  \* the threads started by GENMOVE: thread id -> its locals and position
    out       \* the messages emitted by the most recent step

vars == <<heap, board, copy, last, engine, workers, out>>

----------------------------------------------------------------------------
(* Bounds of the exploration *)

\* plays and passes explored on a 4x4 board before the mutating calls stop
MaxHistory == 3
\* the same on the larger boards
MaxHistoryLarge == 1

BoardSizes == {4, 8}

\* discs on the positions set up from a state string
MaxDiscs == 3

\* plays and passes explored on a Board and on its clone, each
MaxCloneHistory == 1

\* plays made on the engine's Board before a search is called on it
MaxSearchPly == 2

\* threads that GENMOVE has started and that have not returned
MaxThreads == 1

\* plays and passes on the engine's Board before the changes to it stop
MaxEngineHistory == 2

\* the largest Board whose cells are written as coordinate strings
MaxCoordSize == 26

\* the deepest search started at a root
MaxRootDepth == 3

\* discs on the positions set up for a search
MaxSearchDiscs == 2

----------------------------------------------------------------------------
(* Board: class constants *)

BLACK == "BLACK"
WHITE == "WHITE"
EMPTY == "None"

Colors == {BLACK, WHITE}

\* opponent = self.WHITE if player == self.BLACK else self.BLACK
Opponent(player) == IF player = BLACK THEN WHITE ELSE BLACK

Directions ==
    << <<-1, -1>>, <<-1, 0>>, <<-1, 1>>,
       <<0, -1>>,             <<0, 1>>,
       <<1, -1>>,  <<1, 0>>,  <<1, 1>> >>

----------------------------------------------------------------------------
(* The store *)

EmptyHeap == [boards |-> <<>>, grids |-> <<>>]

\* a new object's address: addresses in use are 0..k-1
Fresh(m) == Cardinality(DOMAIN m)

Self(H, b) == H.boards[b]

GridOf(H, b) == H.grids[H.boards[b].grid]

\* self.grid[r][c] = v
SetCell(H, b, r, c, v) == [H EXCEPT !.grids[H.boards[b].grid][r][c] = v]

RECURSIVE Dedup(_)
Dedup(s) ==
    IF s = <<>> THEN <<>>
    ELSE LET d == Dedup(SubSeq(s, 1, Len(s) - 1))
             x == s[Len(s)]
         IN IF \E i \in 1..Len(d) : d[i] = x THEN d ELSE Append(d, x)

IndexOf(s, x) == CHOOSE i \in 1..Len(s) : s[i] = x

\* the grids a Board reaches: its own, then its history's, oldest first
GridRefs(rec) == <<rec.grid>> \o [i \in 1..Len(rec.history) |-> rec.history[i].grid]

RECURSIVE AllGridRefs(_, _)
AllGridRefs(H, bs) ==
    IF bs = <<>> THEN <<>>
    ELSE GridRefs(H.boards[bs[1]]) \o AllGridRefs(H, Tail(bs))

\* Objects no variable reaches are dropped and the rest are renumbered in the
\* order the roots reach them: an address carries no meaning but its identity.
Collect(H, roots) ==
    LET bs == Dedup(roots)
        gs == Dedup(AllGridRefs(H, bs))
        Rename(rec) ==
            [size |-> rec.size,
             grid |-> IndexOf(gs, rec.grid) - 1,
             current_player |-> rec.current_player,
             history |-> [i \in 1..Len(rec.history) |->
                            [grid |-> IndexOf(gs, rec.history[i].grid) - 1,
                             current_player |-> rec.history[i].current_player]]]
    IN [H |-> [boards |-> [n \in 0..Len(bs) - 1 |-> Rename(H.boards[bs[n + 1]])],
               grids |-> [n \in 0..Len(gs) - 1 |-> H.grids[gs[n + 1]]]],
        roots |-> [i \in 1..Len(roots) |-> IndexOf(bs, roots[i]) - 1]]

----------------------------------------------------------------------------
(* Board: construction *)

\* _init_board with the two colours exchanged
_init_board_colours_exchanged(H, b) ==
    LET mid == Self(H, b).size \div 2
        H1 == SetCell(H, b, mid - 1, mid - 1, BLACK)
        H2 == SetCell(H1, b, mid, mid, BLACK)
        H3 == SetCell(H2, b, mid, mid - 1, WHITE)
        H4 == SetCell(H3, b, mid - 1, mid, WHITE)
    IN [H4 EXCEPT !.boards[b].current_player = BLACK]

_init_board(H, b) ==
    LET mid == Self(H, b).size \div 2
        H1 == SetCell(H, b, mid - 1, mid - 1, WHITE)
        H2 == SetCell(H1, b, mid, mid, WHITE)
        H3 == SetCell(H2, b, mid, mid - 1, BLACK)
        H4 == SetCell(H3, b, mid - 1, mid, BLACK)
    IN [H4 EXCEPT !.boards[b].current_player = BLACK]

\* Board(size): returns the store with the new Board in it and its address
NewBoard(H, size) ==
    LET b == Fresh(H.boards)
        g == Fresh(H.grids)
        cells == [r \in 0..size - 1 |-> [c \in 0..size - 1 |-> EMPTY]]
        H1 == [boards |-> H.boards @@ (b :> [size |-> size,
                                               grid |-> g,
                                               current_player |-> BLACK,
                                               history |-> <<>>]),
               grids |-> H.grids @@ (g :> cells)]
    IN [H |-> _init_board(H1, b), ret |-> b]

----------------------------------------------------------------------------
(* Board: queries *)

is_on_board(H, b, r, c) ==
    /\ 0 <= r /\ r < Self(H, b).size
    /\ 0 <= c /\ c < Self(H, b).size

get_piece(H, b, r, c) ==
    IF is_on_board(H, b, r, c) THEN GridOf(H, b)[r][c] ELSE EMPTY

\* ScanLine without its `break` on an empty cell: the scan runs over gaps
RECURSIVE ScanLineOverGaps(_, _, _, _, _, _, _)
ScanLineOverGaps(H, b, nr, nc, dr, dc, player) ==
    LET r2 == nr + dr
        c2 == nc + dc
    IN IF ~is_on_board(H, b, r2, c2) THEN FALSE
       ELSE IF GridOf(H, b)[r2][c2] = player THEN TRUE
       ELSE ScanLineOverGaps(H, b, r2, c2, dr, dc, player)

\* the `while True` loop of is_valid_move, entered at an opponent disc (nr, nc)
RECURSIVE ScanLine(_, _, _, _, _, _, _)
ScanLine(H, b, nr, nc, dr, dc, player) ==
    LET r2 == nr + dr
        c2 == nc + dc
    IN IF ~is_on_board(H, b, r2, c2) THEN FALSE
       ELSE IF GridOf(H, b)[r2][c2] = EMPTY THEN FALSE
       ELSE IF GridOf(H, b)[r2][c2] = player THEN TRUE
       ELSE ScanLine(H, b, r2, c2, dr, dc, player)

is_valid_move(H, b, r, c, player) ==
    IF ~is_on_board(H, b, r, c) \/ GridOf(H, b)[r][c] # EMPTY THEN FALSE
    ELSE \E i \in 1..Len(Directions) :
            LET dr == Directions[i][1]
                dc == Directions[i][2]
            IN /\ is_on_board(H, b, r + dr, c + dc)
               /\ GridOf(H, b)[r + dr][c + dc] = Opponent(player)
               /\ ScanLine(H, b, r + dr, c + dc, dr, dc, player)

\* the cells in the order of the two nested range(size) loops
CellAt(size, i) == <<(i - 1) \div size, (i - 1) % size>>

\* get_valid_moves with the two loops exchanged: columns outside, rows inside
get_valid_moves_by_column(H, b, player) ==
    LET size == Self(H, b).size
        IsValid(m) == is_valid_move(H, b, m[1], m[2], player)
    IN SelectSeq([i \in 1..size * size |-> <<CellAt(size, i)[2], CellAt(size, i)[1]>>],
                 IsValid)

get_valid_moves(H, b, player) ==
    LET size == Self(H, b).size
        IsValid(m) == is_valid_move(H, b, m[1], m[2], player)
    IN SelectSeq([i \in 1..size * size |-> CellAt(size, i)], IsValid)

has_valid_move(H, b, player) == Len(get_valid_moves(H, b, player)) > 0

\* is_game_over with `or` for `and`: over as soon as one colour cannot move
is_game_over_for_one(H, b) == ~has_valid_move(H, b, BLACK) \/ ~has_valid_move(H, b, WHITE)

is_game_over(H, b) == ~has_valid_move(H, b, BLACK) /\ ~has_valid_move(H, b, WHITE)

CountOf(H, b, v) ==
    LET size == Self(H, b).size
    IN Cardinality({m \in (0..size - 1) \X (0..size - 1) : GridOf(H, b)[m[1]][m[2]] = v})

get_score(H, b) == (BLACK :> CountOf(H, b, BLACK)) @@ (WHITE :> CountOf(H, b, WHITE))

----------------------------------------------------------------------------
(* Board: history *)

\* _save_state with grid_copy = self.grid: the entry shares the live grid
_save_state_shared(H, b) ==
    LET entry == [grid |-> Self(H, b).grid, current_player |-> Self(H, b).current_player]
    IN [H EXCEPT !.boards[b].history = Append(@, entry)]

\* grid_copy = [row[:] for row in self.grid]; self.history.append({...})
_save_state(H, b) ==
    LET g == Fresh(H.grids)
        entry == [grid |-> g, current_player |-> Self(H, b).current_player]
    IN [boards |-> [H.boards EXCEPT ![b].history = Append(@, entry)],
        grids |-> H.grids @@ (g :> GridOf(H, b))]

\* undo without self.grid = state['grid']: the discs stay as they are
undo_keeping_the_grid(H, b) ==
    IF Self(H, b).history # <<>>
    THEN LET h == Self(H, b).history
             state == h[Len(h)]
         IN [H |-> [H EXCEPT !.boards[b].history = SubSeq(h, 1, Len(h) - 1),
                             !.boards[b].current_player = state.current_player],
             ret |-> TRUE]
    ELSE [H |-> H, ret |-> FALSE]

undo(H, b) ==
    IF Self(H, b).history # <<>>
    THEN LET h == Self(H, b).history
             state == h[Len(h)]
         IN [H |-> [H EXCEPT !.boards[b].history = SubSeq(h, 1, Len(h) - 1),
                             !.boards[b].grid = state.grid,
                             !.boards[b].current_player = state.current_player],
             ret |-> TRUE]
    ELSE [H |-> H, ret |-> FALSE]

----------------------------------------------------------------------------
(* Board: moves *)

\* the `while` loop of play_move: the opponent run from (nr, nc) on
RECURSIVE PiecesToFlip(_, _, _, _, _, _, _)
PiecesToFlip(H, b, nr, nc, dr, dc, opponent) ==
    IF is_on_board(H, b, nr, nc) /\ GridOf(H, b)[nr][nc] = opponent
    THEN <<<<nr, nc>>>> \o PiecesToFlip(H, b, nr + dr, nc + dc, dr, dc, opponent)
    ELSE <<>>

\* FlipAll with an empty loop: the run is left as it is
FlipNone(H, b, pieces, player) == H

RECURSIVE FlipAll(_, _, _, _)
FlipAll(H, b, pieces, player) ==
    IF pieces = <<>> THEN H
    ELSE FlipAll(SetCell(H, b, pieces[1][1], pieces[1][2], player), b, Tail(pieces), player)

\* FlipDirection without the test that a disc of player closes the run
FlipDirectionUnclosed(H, b, r, c, dr, dc, player) ==
    FlipAll(H, b, PiecesToFlip(H, b, r + dr, c + dc, dr, dc, Opponent(player)), player)

\* one pass of the `for dr, dc in directions` loop of play_move
FlipDirection(H, b, r, c, dr, dc, player) ==
    LET pieces == PiecesToFlip(H, b, r + dr, c + dc, dr, dc, Opponent(player))
        nr == r + dr * (Len(pieces) + 1)
        nc == c + dc * (Len(pieces) + 1)
    IN IF is_on_board(H, b, nr, nc) /\ GridOf(H, b)[nr][nc] = player
       THEN FlipAll(H, b, pieces, player)
       ELSE H

\* the `for dr, dc in directions` loop of play_move from the i-th direction
\* on; a direction whose `while` loop is never entered leaves the grid alone
RECURSIVE FlipDirections(_, _, _, _, _, _)
FlipDirections(H, b, r, c, player, i) ==
    IF i > Len(Directions) THEN H
    ELSE IF get_piece(H, b, r + Directions[i][1], c + Directions[i][2]) # Opponent(player)
    THEN FlipDirections(H, b, r, c, player, i + 1)
    ELSE FlipDirections(
            FlipDirection(H, b, r, c, Directions[i][1], Directions[i][2], player),
            b, r, c, player, i + 1)

\* play_move with _save_state() called ahead of the legality test
play_move_saving_first(H, b, r, c, player) ==
    LET H1 == _save_state(H, b)
    IN IF ~is_valid_move(H, b, r, c, player) THEN [H |-> H1, ret |-> FALSE]
       ELSE LET H2 == SetCell(H1, b, r, c, player)
                H3 == FlipDirections(H2, b, r, c, player, 1)
            IN [H |-> [H3 EXCEPT !.boards[b].current_player = Opponent(player)],
                ret |-> TRUE]

play_move(H, b, r, c, player) ==
    IF ~is_valid_move(H, b, r, c, player) THEN [H |-> H, ret |-> FALSE]
    ELSE LET H1 == _save_state(H, b)
             H2 == SetCell(H1, b, r, c, player)
             H3 == FlipDirections(H2, b, r, c, player, 1)
         IN [H |-> [H3 EXCEPT !.boards[b].current_player = Opponent(player)],
             ret |-> TRUE]

\* pass_turn without the comparison with self.current_player
pass_turn_out_of_turn(H, b, player) ==
    IF player \notin {BLACK, WHITE} THEN [H |-> H, ret |-> FALSE]
    ELSE LET H1 == _save_state(H, b)
         IN [H |-> [H1 EXCEPT !.boards[b].current_player = Opponent(player)],
             ret |-> TRUE]

pass_turn(H, b, player) ==
    IF player \notin {BLACK, WHITE} THEN [H |-> H, ret |-> FALSE]
    ELSE IF Self(H, b).current_player # player THEN [H |-> H, ret |-> FALSE]
    ELSE LET H1 == _save_state(H, b)
         IN [H |-> [H1 EXCEPT !.boards[b].current_player = Opponent(player)],
             ret |-> TRUE]

\* clone with copied.grid = self.grid: the copy shares the grid
clone_sharing_grid(H, b) ==
    LET made == NewBoard(H, Self(H, b).size)
        copied == made.ret
    IN [H |-> [made.H EXCEPT !.boards[copied].grid = Self(H, b).grid,
                             !.boards[copied].current_player = Self(H, b).current_player,
                             !.boards[copied].history = <<>>],
        ret |-> copied]

clone(H, b) ==
    LET made == NewBoard(H, Self(H, b).size)
        copied == made.ret
        g == Fresh(made.H.grids)
        H1 == [boards |-> [made.H.boards EXCEPT ![copied].grid = g,
                                                 ![copied].current_player =
                                                     Self(H, b).current_player,
                                                 ![copied].history = <<>>],
               grids |-> made.H.grids @@ (g :> GridOf(H, b))]
    IN [H |-> H1, ret |-> copied]

----------------------------------------------------------------------------
(* The Board driven through its public methods *)

HistoryCap(size) == IF size = 4 THEN MaxHistory ELSE MaxHistoryLarge

\* the coordinates one step off the board, a corner, and a centre cell
Coords(size) == {-1, 0, size \div 2, size}

SeqRange(s) == {s[i] : i \in 1..Len(s)}

\* the cells a caller tries: every legal move of either colour, and every pair
\* of the coordinates above (off the board, occupied, empty without a capture)
MoveInputs(H, b) ==
    (Coords(Self(H, b).size) \X Coords(Self(H, b).size))
        \cup SeqRange(get_valid_moves(H, b, BLACK))
        \cup SeqRange(get_valid_moves(H, b, WHITE))

NoCall == [op |-> "Board", ret |-> TRUE]

\* a Board used on its own: no engine, no thread, no message
NoEngineYet ==
    /\ engine = <<>>
    /\ workers = <<>>
    /\ out = <<>>

BoardOnly == UNCHANGED <<engine, workers, out>>

Init ==
    /\ \E size \in BoardSizes :
          LET made == NewBoard(EmptyHeap, size)
          IN /\ heap = made.H
             /\ board = made.ret
    /\ copy = <<>>
    /\ last = NoCall
    /\ NoEngineYet

Publish(H, roots) ==
    LET kept == Collect(H, roots)
    IN /\ heap' = kept.H
       /\ board' = kept.roots[1]
       /\ copy' = SubSeq(kept.roots, 2, Len(kept.roots))

Room(H, b) == Len(Self(H, b).history) < HistoryCap(Self(H, b).size)

PlayMove ==
    /\ BoardOnly
    /\ Room(heap, board)
    /\ \E m \in MoveInputs(heap, board), player \in Colors :
          LET res == play_move(heap, board, m[1], m[2], player)
          IN /\ Publish(res.H, <<board>> \o copy)
             /\ last' = [op |-> "play_move", r |-> m[1], c |-> m[2], player |-> player,
                         ret |-> res.ret]

PassTurn ==
    /\ BoardOnly
    /\ Room(heap, board)
    /\ \E player \in Colors \cup {EMPTY} :
          LET res == pass_turn(heap, board, player)
          IN /\ Publish(res.H, <<board>> \o copy)
             /\ last' = [op |-> "pass_turn", player |-> player, ret |-> res.ret]

Undo ==
    /\ BoardOnly
    /\ LET res == undo(heap, board)
       IN /\ Publish(res.H, <<board>> \o copy)
          /\ last' = [op |-> "undo", ret |-> res.ret]

Next == PlayMove \/ PassTurn \/ Undo

Spec == Init /\ [][Next]_vars

----------------------------------------------------------------------------
(* A Board and a clone of it, each driven by the side to move *)

InitClone ==
    /\ LET made == NewBoard(EmptyHeap, 4)
       IN /\ heap = made.H
          /\ board = made.ret
    /\ copy = <<>>
    /\ last = NoCall
    /\ NoEngineYet

\* the Board a call goes to: the original, or the clone once there is one
Target(on) == IF on = "board" THEN board ELSE copy[1]

Targets == IF copy = <<>> THEN {"board"} ELSE {"board", "copy"}

CloneRoom(b) == Len(Self(heap, b).history) < MaxCloneHistory

MakeClone ==
    /\ BoardOnly
    /\ LET res == clone(heap, board)
       IN /\ Publish(res.H, <<board, res.ret>>)
          /\ last' = [op |-> "clone", on |-> "board", ret |-> TRUE]

PlayOn ==
    /\ BoardOnly
    /\ \E on \in Targets :
          /\ CloneRoom(Target(on))
          /\ LET b == Target(on)
                 player == Self(heap, b).current_player
             IN \E m \in SeqRange(get_valid_moves(heap, b, player)) :
                   LET res == play_move(heap, b, m[1], m[2], player)
                   IN /\ Publish(res.H, <<board>> \o copy)
                      /\ last' = [op |-> "play_move", on |-> on, ret |-> res.ret]

PassOn ==
    /\ BoardOnly
    /\ \E on \in Targets :
          /\ CloneRoom(Target(on))
          /\ LET b == Target(on)
                 res == pass_turn(heap, b, Self(heap, b).current_player)
             IN /\ Publish(res.H, <<board>> \o copy)
                /\ last' = [op |-> "pass_turn", on |-> on, ret |-> res.ret]

UndoOn ==
    /\ BoardOnly
    /\ \E on \in Targets :
          LET res == undo(heap, Target(on))
          IN /\ Publish(res.H, <<board>> \o copy)
             /\ last' = [op |-> "undo", on |-> on, ret |-> res.ret]

NextClone == MakeClone \/ PlayOn \/ PassOn \/ UndoOn

SpecClone == InitClone /\ [][NextClone]_vars

----------------------------------------------------------------------------
(* Positions set up from a state string *)

\* the loop body of board_from_state_string for the cell at index idx
PlaceFromString(H, b, board_size, state, idx) ==
    LET piece == IF idx < Len(state) THEN state[idx + 1] ELSE "."
        r == idx \div board_size
        c == idx % board_size
    IN IF piece = "B" THEN SetCell(H, b, r, c, BLACK)
       ELSE IF piece = "W" THEN SetCell(H, b, r, c, WHITE)
       ELSE SetCell(H, b, r, c, EMPTY)

RECURSIVE FillFromString(_, _, _, _, _)
FillFromString(H, b, board_size, state, idx) ==
    IF idx >= board_size * board_size THEN H
    ELSE FillFromString(PlaceFromString(H, b, board_size, state, idx),
                        b, board_size, state, idx + 1)

\* state is the sequence of the string's characters
board_from_state_string(H, board_size, state, current_player) ==
    LET made == NewBoard(H, board_size)
        H1 == FillFromString(made.H, made.ret, board_size, state, 0)
    IN [H |-> [H1 EXCEPT !.boards[made.ret].current_player = current_player],
        ret |-> made.ret]

\* the state string of the position with the discs `colour` on an empty board
StateString(size, colour) ==
    [i \in 1..size * size |->
        IF CellAt(size, i) \in DOMAIN colour
        THEN (IF colour[CellAt(size, i)] = BLACK THEN "B" ELSE "W")
        ELSE "."]

\* every 4x4 position of at most MaxDiscs discs, BLACK to move
InitPosition ==
    /\ \E cells \in SUBSET ((0..3) \X (0..3)) :
          /\ Cardinality(cells) <= MaxDiscs
          /\ \E colour \in [cells -> Colors] :
                LET made == board_from_state_string(EmptyHeap, 4,
                                StateString(4, colour), BLACK)
                IN /\ heap = made.H
                   /\ board = made.ret
    /\ copy = <<>>
    /\ last = NoCall
    /\ NoEngineYet

\* one legal move of either colour is played on the position as set up
PositionPlay ==
    /\ BoardOnly
    /\ Self(heap, board).history = <<>>
    /\ \E player \in Colors :
          \E m \in SeqRange(get_valid_moves(heap, board, player)) :
             LET res == play_move(heap, board, m[1], m[2], player)
             IN /\ Publish(res.H, <<board>> \o copy)
                /\ last' = [op |-> "play_move", r |-> m[1], c |-> m[2],
                            player |-> player, ret |-> res.ret]

SpecPosition == InitPosition /\ [][PositionPlay]_vars

----------------------------------------------------------------------------
(* MinimaxEngine: construction and evaluation *)

Max(a, b) == IF a >= b THEN a ELSE b

Min(a, b) == IF a <= b THEN a ELSE b

\* math.inf: above every score an evaluation gives
Infinity == 1000000

\* None, where a move (r, c) is expected
NoMove == <<>>

\* MinimaxEngine(board_size, search_depth, selection_top_k, randomize_moves):
\* BaseEngine.__init__ makes the Board, then the search settings are clamped
NewEngine(H, board_size, search_depth, selection_top_k, randomize_moves) ==
    LET made == NewBoard(H, board_size)
    IN [H |-> made.H,
        board |-> made.ret,
        engine |-> [board_size |-> board_size,
                    _running |-> FALSE,
                    search_depth |-> Max(1, search_depth),
                    _search_color |-> BLACK,
                    selection_top_k |-> Max(1, selection_top_k),
                    randomize_moves |-> randomize_moves]]

\* _corner_heuristic looking at the two corners of row 0 only
_corner_heuristic_of_the_first_row(H, b, player) ==
    LET size == Self(H, b).size
        corners == << <<0, 0>>, <<0, size - 1>> >>
    IN Cardinality({i \in 1..Len(corners) :
                       get_piece(H, b, corners[i][1], corners[i][2]) = player})

_corner_heuristic(H, b, player) ==
    LET size == Self(H, b).size
        corners == << <<0, 0>>, <<0, size - 1>>, <<size - 1, 0>>, <<size - 1, size - 1>> >>
    IN Cardinality({i \in 1..Len(corners) :
                       get_piece(H, b, corners[i][1], corners[i][2]) = player})

\* _evaluate_board taken for the side to move on the board instead of
\* self._search_color
_evaluate_board_for_the_side_to_move(H, e, b) ==
    LET mine == Self(H, b).current_player
        opponent == Opponent(mine)
        scores == get_score(H, b)
        disc_balance == scores[mine] - scores[opponent]
        mobility == Len(get_valid_moves(H, b, mine)) - Len(get_valid_moves(H, b, opponent))
        corner_score == _corner_heuristic(H, b, mine) - _corner_heuristic(H, b, opponent)
    IN disc_balance * 3 + mobility * 10 + corner_score * 50

\* Twice the value of _evaluate_board, which keeps it an integer:
\* 2 * (disc_balance * 1.5 + mobility * 5 + corner_score * 25)
_evaluate_board(H, e, b) ==
    LET opponent == Opponent(e._search_color)
        scores == get_score(H, b)
        disc_balance == scores[e._search_color] - scores[opponent]
        my_moves == Len(get_valid_moves(H, b, e._search_color))
        opp_moves == Len(get_valid_moves(H, b, opponent))
        mobility == my_moves - opp_moves
        corner_score == _corner_heuristic(H, b, e._search_color)
                            - _corner_heuristic(H, b, opponent)
    IN disc_balance * 3 + mobility * 10 + corner_score * 50

----------------------------------------------------------------------------
(* MinimaxEngine: the search.  Every operator takes the store and returns it: *)
(* the Boards the search makes stay in it until the caller drops them.        *)

\* ChildAfter with child = board: the move is played on the Board given
ChildInPlace(H, b, move, player) ==
    LET played == play_move(H, b, move[1], move[2], player)
    IN [H |-> played.H, ret |-> b]

\* child = board.clone(); child.play_move(move[0], move[1], player)
ChildAfter(H, b, move, player) ==
    LET made == clone(H, b)
        played == play_move(made.H, made.ret, move[1], move[2], player)
    IN [H |-> played.H, ret |-> made.ret]

RECURSIVE _minimax(_, _, _, _, _, _, _)
RECURSIVE MinimaxLoop(_, _, _, _, _, _, _, _, _, _, _)
RECURSIVE MinimaxStep(_, _, _, _, _, _, _, _, _, _, _)

\* self._minimax(child, child.current_player, depth - 1, alpha, beta)
SearchChild(made, e, depth, alpha, beta) ==
    _minimax(made.H, e, made.ret, Self(made.H, made.ret).current_player,
             depth - 1, alpha, beta)

\* the `for move in valid_moves` loop of _minimax from the i-th move on, for
\* the maximizing player and for the minimizing one
MinimaxLoop(H, e, b, player, depth, alpha, beta, valid_moves, i, value, best_move) ==
    IF i > Len(valid_moves) THEN [H |-> H, move |-> best_move, score |-> value]
    ELSE MinimaxStep(SearchChild(ChildAfter(H, b, valid_moves[i], player),
                                 e, depth, alpha, beta),
                     e, b, player, depth, alpha, beta, valid_moves, i, value, best_move)

\* MinimaxStep with the cut taken while the window is still open
MinimaxStepCuttingAtOnce(sub, e, b, player, depth, alpha, beta, valid_moves, i, value, best_move) ==
    LET maximizing == player = e._search_color
        better == IF maximizing THEN sub.score > value ELSE sub.score < value
        value1 == IF better THEN sub.score ELSE value
        best1 == IF better THEN valid_moves[i] ELSE best_move
        alpha1 == IF maximizing THEN Max(alpha, value1) ELSE alpha
        beta1 == IF maximizing THEN beta ELSE Min(beta, value1)
    IN IF alpha1 <= beta1 THEN [H |-> sub.H, move |-> best1, score |-> value1]
       ELSE MinimaxLoop(sub.H, e, b, player, depth, alpha1, beta1,
                        valid_moves, i + 1, value1, best1)

\* the rest of the loop body, once the i-th child's search has returned sub
MinimaxStep(sub, e, b, player, depth, alpha, beta, valid_moves, i, value, best_move) ==
    LET maximizing == player = e._search_color
        better == IF maximizing THEN sub.score > value ELSE sub.score < value
        value1 == IF better THEN sub.score ELSE value
        best1 == IF better THEN valid_moves[i] ELSE best_move
        alpha1 == IF maximizing THEN Max(alpha, value1) ELSE alpha
        beta1 == IF maximizing THEN beta ELSE Min(beta, value1)
    IN IF beta1 <= alpha1 THEN [H |-> sub.H, move |-> best1, score |-> value1]
       ELSE MinimaxLoop(sub.H, e, b, player, depth, alpha1, beta1,
                        valid_moves, i + 1, value1, best1)

\* board_pass = board.clone(); board_pass.current_player = opponent
PassedClone(made, opponent) ==
    [H |-> [made.H EXCEPT !.boards[made.ret].current_player = opponent],
     ret |-> made.ret]

\* SearchPass with the pass costing no ply
SearchPassAtSameDepth(made, e, opponent, depth, alpha, beta) ==
    _minimax(made.H, e, made.ret, opponent, depth, alpha, beta)

\* return self._minimax(board_pass, opponent, depth - 1, alpha, beta)
SearchPass(made, e, opponent, depth, alpha, beta) ==
    _minimax(made.H, e, made.ret, opponent, depth - 1, alpha, beta)

\* return None, self._evaluate_board(board)
Leaf(H, e, b) == [H |-> H, move |-> NoMove, score |-> _evaluate_board(H, e, b)]

\* the body of _minimax below `valid_moves = board.get_valid_moves(player)`
MinimaxBody(H, e, b, player, depth, alpha, beta, valid_moves) ==
    IF depth <= 0 \/ is_game_over(H, b) THEN Leaf(H, e, b)
    ELSE IF valid_moves = <<>>
    THEN IF has_valid_move(H, b, Opponent(player))
         THEN SearchPass(PassedClone(clone(H, b), Opponent(player)),
                         e, Opponent(player), depth, alpha, beta)
         ELSE Leaf(H, e, b)
    ELSE MinimaxLoop(H, e, b, player, depth, alpha, beta, valid_moves, 1,
                     IF player = e._search_color THEN -Infinity ELSE Infinity,
                     NoMove)

_minimax(H, e, b, player, depth, alpha, beta) ==
    MinimaxBody(H, e, b, player, depth, alpha, beta, get_valid_moves(H, b, player))

\* the `for move in moves` loop of _score_moves, entered with the scores of
\* the moves tried so far
RECURSIVE ScoreLoop(_, _, _, _, _, _)
RECURSIVE ScoreStep(_, _, _, _, _, _)

ScoreLoop(H, e, board_snapshot, color, moves, move_scores) ==
    IF Len(move_scores) = Len(moves) THEN [H |-> H, ret |-> move_scores]
    ELSE ScoreStep(SearchChild(ChildAfter(H, board_snapshot,
                                          moves[Len(move_scores) + 1], color),
                               e, e.search_depth, -Infinity, Infinity),
                   e, board_snapshot, color, moves, move_scores)

\* move_scores.append((move, score)), and on to the next move
ScoreStep(sub, e, board_snapshot, color, moves, move_scores) ==
    ScoreLoop(sub.H, e, board_snapshot, color, moves,
              Append(move_scores, [move |-> moves[Len(move_scores) + 1],
                                   score |-> sub.score]))

_score_moves(H, e, board_snapshot, color) ==
    ScoreLoop(H, e, board_snapshot, color, get_valid_moves(H, board_snapshot, color), <<>>)

----------------------------------------------------------------------------
(* MinimaxEngine: choosing among the scored moves *)

\* sorted(..., reverse=True) is stable: x goes behind the items scoring as much
RECURSIVE InsertByScore(_, _)
InsertByScore(ordered, x) ==
    IF ordered = <<>> THEN <<x>>
    ELSE IF ordered[1].score >= x.score
         THEN <<ordered[1]>> \o InsertByScore(Tail(ordered), x)
         ELSE <<x>> \o ordered

RECURSIVE SortedByScore(_)
SortedByScore(move_scores) ==
    IF move_scores = <<>> THEN <<>>
    ELSE InsertByScore(SortedByScore(SubSeq(move_scores, 1, Len(move_scores) - 1)),
                       move_scores[Len(move_scores)])

\* _top_candidates keeping the first selection_top_k items and no more
_top_candidates_without_ties(e, move_scores) ==
    LET ordered == SortedByScore(move_scores)
    IN SubSeq(ordered, 1, Min(Len(ordered), e.selection_top_k))

_top_candidates(e, move_scores) ==
    LET ordered == SortedByScore(move_scores)
        cutoff_index == Min(Len(ordered), e.selection_top_k) - 1
        cutoff_score == ordered[cutoff_index + 1].score
        AtLeastCutoff(item) == item.score >= cutoff_score
    IN SelectSeq(ordered, AtLeastCutoff)

\* max(...) keeping the last item of the highest score
LastBest(move_scores) ==
    LET i == CHOOSE i \in 1..Len(move_scores) :
                /\ \A j \in 1..Len(move_scores) : move_scores[j].score <= move_scores[i].score
                /\ \A j \in i + 1..Len(move_scores) : move_scores[j].score < move_scores[i].score
    IN move_scores[i]

\* max(move_scores, key=score): the first item of the highest score
FirstBest(move_scores) ==
    LET i == CHOOSE i \in 1..Len(move_scores) :
                /\ \A j \in 1..Len(move_scores) : move_scores[j].score <= move_scores[i].score
                /\ \A j \in 1..i - 1 : move_scores[j].score < move_scores[i].score
    IN move_scores[i]

\* The moves _select_weighted_move may return: one where the choice is fixed,
\* and any candidate where self._rng.choices draws it.
_select_weighted_move(e, move_scores) ==
    IF ~e.randomize_moves \/ Len(move_scores) = 1 THEN {FirstBest(move_scores).move}
    ELSE LET candidates == _top_candidates(e, move_scores)
         IN IF Len(candidates) = 1 THEN {candidates[1].move}
            ELSE {candidates[i].move : i \in 1..Len(candidates)}

\* _pick_move without self._search_color = color: the search runs for the
\* colour of the call before
_pick_move_for_last_color(H, e, board_snapshot, color, valid_moves) ==
    [H |-> _score_moves(H, e, board_snapshot, color).H,
     engine |-> e,
     rets |-> IF _score_moves(H, e, board_snapshot, color).ret = <<>> THEN {NoMove}
              ELSE _select_weighted_move(e, _score_moves(H, e, board_snapshot, color).ret)]

\* _pick_move: the store and the engine after the call, and the values the
\* call may return
_pick_move(H, e, board_snapshot, color, valid_moves) ==
    LET e1 == [e EXCEPT !._search_color = color]
        scored == _score_moves(H, e1, board_snapshot, color)
    IN [H |-> scored.H,
        engine |-> e1,
        rets |-> IF scored.ret = <<>> THEN {NoMove}
                 ELSE _select_weighted_move(e1, scored.ret)]

----------------------------------------------------------------------------
(* The search called on a snapshot of the engine's Board *)

\* the search_depth arguments the engine is constructed with
ConfiguredDepths == {0, 1, 3}

\* MinimaxEngine(board_size=4, search_depth=..., randomize_moves=...)
EngineMade(depths) ==
    /\ \E search_depth \in depths, randomize_moves \in BOOLEAN :
          LET made == NewEngine(EmptyHeap, 4, search_depth, 2, randomize_moves)
          IN /\ heap = made.H
             /\ board = made.board
             /\ engine = made.engine
    /\ copy = <<>>
    /\ last = NoCall
    /\ workers = <<>>
    /\ out = <<>>

InitSearch == EngineMade(ConfiguredDepths)

\* the side to move plays on the engine's Board; an earlier snapshot is dropped
SearchPlay ==
    /\ Len(Self(heap, board).history) < MaxSearchPly
    /\ LET player == Self(heap, board).current_player
       IN \E m \in SeqRange(get_valid_moves(heap, board, player)) :
             LET res == play_move(heap, board, m[1], m[2], player)
             IN /\ Publish(res.H, <<board>>)
                /\ last' = [op |-> "play_move", ret |-> res.ret]
    /\ UNCHANGED <<engine, workers, out>>

\* board_snapshot = self.board.clone()
TakeSnapshot ==
    /\ copy = <<>>
    /\ LET res == clone(heap, board)
       IN /\ Publish(res.H, <<board, res.ret>>)
          /\ last' = [op |-> "clone", ret |-> TRUE]
    /\ UNCHANGED <<engine, workers, out>>

\* the call self._pick_move(board_snapshot, color, valid_moves) and what it
\* returned; the Boards the search made are dropped when it returns
Picked(color, valid_moves) ==
    LET res == _pick_move(heap, engine, copy[1], color, valid_moves)
    IN \E move \in res.rets :
          /\ Publish(res.H, <<board>> \o copy)
          /\ engine' = res.engine
          /\ last' = [op |-> "_pick_move", color |-> color,
                      valid_moves |-> valid_moves, move |-> move]
          /\ UNCHANGED <<workers, out>>

\* valid_moves = snapshot.get_valid_moves(color); if not valid_moves: return None
\* move = self._engine._pick_move(snapshot, color, valid_moves)
PickMove ==
    /\ copy # <<>>
    /\ last.op = "clone"
    /\ \E color \in Colors :
          LET valid_moves == get_valid_moves(heap, copy[1], color)
          IN /\ valid_moves # <<>>
             /\ Picked(color, valid_moves)

NextSearch == SearchPlay \/ TakeSnapshot \/ PickMove

SpecSearch == InitSearch /\ [][NextSearch]_vars

----------------------------------------------------------------------------
(* _pick_move as a function of its three arguments *)

InitPick == EngineMade({1})

\* the lists handed to _pick_move with a snapshot: the legal moves of color on
\* it, those but the first, the empty list, and a list of one corner
MoveLists(H, b, color) ==
    LET moves == get_valid_moves(H, b, color)
    IN {moves, <<>>, << <<0, 0>> >>} \cup (IF moves = <<>> THEN {} ELSE {Tail(moves)})

PickFromList ==
    /\ copy # <<>>
    /\ last.op = "clone"
    /\ \E color \in Colors :
          \E valid_moves \in MoveLists(heap, copy[1], color) :
             Picked(color, valid_moves)

NextPick == SearchPlay \/ TakeSnapshot \/ PickFromList

SpecPick == InitPick /\ [][NextPick]_vars

----------------------------------------------------------------------------
(* The randomized selection among the scored moves *)

\* the selection_top_k arguments the engine is constructed with
ConfiguredTopK == {0, 2, 3, 9}

\* MinimaxEngine(board_size=4, search_depth=1, selection_top_k=...,
\* randomize_moves=True)
InitSelect ==
    /\ \E selection_top_k \in ConfiguredTopK :
          LET made == NewEngine(EmptyHeap, 4, 1, selection_top_k, TRUE)
          IN /\ heap = made.H
             /\ board = made.board
             /\ engine = made.engine
    /\ copy = <<>>
    /\ last = NoCall
    /\ workers = <<>>
    /\ out = <<>>

NextSelect == SearchPlay \/ TakeSnapshot \/ PickMove

SpecSelect == InitSelect /\ [][NextSelect]_vars

----------------------------------------------------------------------------
(* BaseEngine: the command driver and the thread GENMOVE starts *)

\* A step is one command handled by send_command from start to end, or one
\* call a thread makes in _run_ai_turn.  Nothing orders a thread's calls
\* against the commands, so every interleaving of them is a behaviour.  The
\* messages of a step are in out; last is left as it is.

\* self._emit(...): a message is its tag and what follows it
Message(tag) == [tag |-> tag]

ErrorMessage(text) == [tag |-> "ERROR", text |-> text]

PieceChar(piece) == IF piece = BLACK THEN "B" ELSE IF piece = WHITE THEN "W" ELSE "."

\* the message _emit_board_update sends
_emit_board_update(H, e, b) ==
    [tag |-> "BOARD",
     size |-> e.board_size,
     current_player |-> Self(H, b).current_player,
     state |-> [i \in 1..e.board_size * e.board_size |->
                  PieceChar(get_piece(H, b, CellAt(e.board_size, i)[1],
                                            CellAt(e.board_size, i)[2]))]]

Winner(scores) ==
    IF scores[BLACK] > scores[WHITE] THEN "BLACK"
    ELSE IF scores[WHITE] > scores[BLACK] THEN "WHITE"
    ELSE "DRAW"

\* the messages _check_game_state sends
_check_game_state(H, b) ==
    IF has_valid_move(H, b, Self(H, b).current_player) THEN <<>>
    ELSE IF has_valid_move(H, b, Opponent(Self(H, b).current_player)) THEN <<>>
    ELSE << [tag |-> "RESULT", winner |-> Winner(get_score(H, b))] >>

\* what follows a successful change of the Board: the first message, the
\* board update and the result if the game is over
Announce(first, H, e, b) ==
    <<first, _emit_board_update(H, e, b)>> \o _check_game_state(H, b)

RECURSIVE Ascending(_)
Ascending(S) ==
    IF S = {} THEN <<>>
    ELSE LET least == CHOOSE x \in S : \A y \in S : x <= y
         IN <<least>> \o Ascending(S \ {least})

\* the threads that hold a snapshot, by thread id
Holders(ws) == Ascending({t \in DOMAIN ws : ws[t].snapshot # <<>>})

\* The end of a step of the engine: the Boards that self.board and the
\* threads' board_snapshot locals reach are kept, the rest is dropped.
EnginePublish(H, b, ws) ==
    LET holders == Holders(ws)
        kept == Collect(H, <<b>> \o [i \in 1..Len(holders) |-> ws[holders[i]].snapshot[1]])
    IN /\ heap' = kept.H
       /\ board' = kept.roots[1]
       /\ workers' = [t \in DOMAIN ws |->
                        IF ws[t].snapshot = <<>> THEN ws[t]
                        ELSE [ws[t] EXCEPT
                                !.snapshot = <<kept.roots[1 + IndexOf(holders, t)]>>]]
       /\ copy' = <<>>

\* a thread that has returned is no longer there
Without(ws, t) ==
    IF DOMAIN ws = {t} THEN <<>> ELSE [u \in DOMAIN ws \ {t} |-> ws[u]]

\* a Board's history stays within the bound of the exploration
WithinHistory(H, b) == Len(Self(H, b).history) <= MaxEngineHistory

\* MinimaxEngine(board_size=4, search_depth=1, selection_top_k=2,
\* randomize_moves=False), constructed and not started
InitEngine ==
    /\ LET made == NewEngine(EmptyHeap, 4, 1, 2, FALSE)
       IN /\ heap = made.H
          /\ board = made.board
          /\ engine = made.engine
    /\ copy = <<>>
    /\ last = NoCall
    /\ workers = <<>>
    /\ out = <<>>

\* start()
Start ==
    /\ engine' = [engine EXCEPT !._running = TRUE]
    /\ out' = <<Message("READY")>>
    /\ UNCHANGED last
    /\ UNCHANGED <<heap, board, copy, workers>>

\* send_command before start(): if not self._running: return
Ignored ==
    /\ ~engine._running
    /\ out' = <<>>
    /\ UNCHANGED last
    /\ UNCHANGED <<heap, board, copy, engine, workers>>

\* INIT
CmdInit ==
    /\ engine._running
    /\ LET made == NewBoard(heap, engine.board_size)
       IN EnginePublish(made.H, made.ret, workers)
    /\ out' = <<Message("READY")>>
    /\ UNCHANGED last
    /\ UNCHANGED engine

\* NEWGAME
CmdNewGame ==
    /\ engine._running
    /\ LET made == NewBoard(heap, engine.board_size)
       IN /\ EnginePublish(made.H, made.ret, workers)
          /\ out' = <<Message("OK"), _emit_board_update(made.H, engine, made.ret)>>
    /\ UNCHANGED last
    /\ UNCHANGED engine

\* the coordinates a PLAY names: the first legal move of the side to move, and
\* a corner, which is legal in no position explored
PlayInputs(H, b) ==
    LET moves == get_valid_moves(H, b, Self(H, b).current_player)
    IN {<<0, 0>>} \cup (IF moves = <<>> THEN {} ELSE {moves[1]})

\* PLAY <coord>, the coordinate given as the (r, c) it stands for
CmdPlay ==
    /\ engine._running
    /\ \E m \in PlayInputs(heap, board) :
          LET player == Self(heap, board).current_player
              res == play_move(heap, board, m[1], m[2], player)
          IN /\ WithinHistory(res.H, board)
             /\ EnginePublish(res.H, board, workers)
             /\ out' = IF res.ret
                       THEN Announce(Message("OK"), res.H, engine, board)
                       ELSE <<ErrorMessage("Illegal move")>>
             /\ UNCHANGED last
    /\ UNCHANGED engine

\* PLAY with nothing after it
CmdPlayNoCoordinate ==
    /\ engine._running
    /\ out' = <<ErrorMessage("Missing coordinate")>>
    /\ UNCHANGED last
    /\ UNCHANGED <<heap, board, copy, engine, workers>>

\* the id of the next thread
NewThread == CHOOSE t \in 1..MaxThreads : t \notin DOMAIN workers

\* GENMOVE <color>, or GENMOVE alone for the side to move: the handler starts
\* a thread on _run_ai_turn(color) and returns
CmdGenmove ==
    /\ engine._running
    /\ Cardinality(DOMAIN workers) < MaxThreads
    /\ \E given \in Colors \cup {""} :
          LET color == IF given = "" THEN Self(heap, board).current_player ELSE given
          IN /\ workers' = workers @@ (NewThread :>
                               [pc |-> "get_valid_moves",
                                color |-> color,
                                valid_moves |-> <<>>,
                                snapshot |-> <<>>,
                                move |-> NoMove])
             /\ UNCHANGED last
    /\ out' = <<>>
    /\ UNCHANGED <<heap, board, copy, engine>>

\* UNDO
CmdUndo ==
    /\ engine._running
    /\ LET res == undo(heap, board)
       IN /\ EnginePublish(res.H, board, workers)
          /\ out' = IF res.ret
                    THEN <<Message("OK"), _emit_board_update(res.H, engine, board)>>
                    ELSE <<ErrorMessage("Cannot undo")>>
          /\ UNCHANGED last
    /\ UNCHANGED engine

\* PASS <color>: no branch before the last one takes it, and the last one
\* compares with Command.PASS, which the class Command does not define; the
\* AttributeError leaves send_command before any handler runs
CmdPass ==
    /\ engine._running
    /\ out' = <<>>
    /\ UNCHANGED last
    /\ UNCHANGED <<heap, board, copy, engine, workers>>

\* _run_ai_turn: valid_moves = self.board.get_valid_moves(color)
WorkerReadMoves ==
    /\ \E t \in DOMAIN workers :
          /\ workers[t].pc = "get_valid_moves"
          /\ LET valid_moves == get_valid_moves(heap, board, workers[t].color)
             IN workers' = [workers EXCEPT
                              ![t].valid_moves = valid_moves,
                              ![t].pc = IF valid_moves = <<>> THEN "_emit_pass" ELSE "clone"]
          /\ UNCHANGED last
    /\ out' = <<>>
    /\ UNCHANGED <<heap, board, copy, engine>>

\* _run_ai_turn: self._emit_pass(color); return
WorkerEmitPass ==
    /\ \E t \in DOMAIN workers :
          /\ workers[t].pc = "_emit_pass"
          /\ LET res == pass_turn(heap, board, workers[t].color)
             IN /\ WithinHistory(res.H, board)
                /\ EnginePublish(res.H, board, Without(workers, t))
                /\ out' = IF res.ret
                          THEN Announce([tag |-> "PASS", color |-> workers[t].color],
                                        res.H, engine, board)
                          ELSE <<ErrorMessage("Cannot pass")>>
                /\ UNCHANGED last
    /\ UNCHANGED engine

\* _run_ai_turn: board_snapshot = self.board.clone()
WorkerClone ==
    /\ \E t \in DOMAIN workers :
          /\ workers[t].pc = "clone"
          /\ LET res == clone(heap, board)
             IN EnginePublish(res.H, board,
                              [workers EXCEPT ![t].snapshot = <<res.ret>>,
                                              ![t].pc = "_pick_move"])
          /\ UNCHANGED last
    /\ out' = <<>>
    /\ UNCHANGED engine

\* the thread's locals once _pick_move has returned: a None is replaced
WithMove(ws, t, move) ==
    [ws EXCEPT ![t].move = IF move = NoMove THEN ws[t].valid_moves[1] ELSE move,
               ![t].pc = "play_move"]

\* _run_ai_turn: move = self._pick_move(board_snapshot, color, valid_moves);
\* if move is None: move = valid_moves[0]
WorkerPick ==
    /\ \E t \in DOMAIN workers :
          /\ workers[t].pc = "_pick_move"
          /\ LET res == _pick_move(heap, engine, workers[t].snapshot[1],
                                   workers[t].color, workers[t].valid_moves)
             IN /\ \E move \in res.rets :
                      EnginePublish(res.H, board, WithMove(workers, t, move))
                /\ engine' = res.engine
          /\ UNCHANGED last
    /\ out' = <<>>

\* _run_ai_turn: if self.board.play_move(r, c, color): ... else: ...
WorkerApply ==
    /\ \E t \in DOMAIN workers :
          /\ workers[t].pc = "play_move"
          /\ LET res == play_move(heap, board, workers[t].move[1], workers[t].move[2],
                                  workers[t].color)
             IN /\ WithinHistory(res.H, board)
                /\ EnginePublish(res.H, board, Without(workers, t))
                /\ out' = IF res.ret
                          THEN Announce([tag |-> "MOVE", move |-> workers[t].move],
                                        res.H, engine, board)
                          ELSE <<ErrorMessage("Failed to apply move")>>
                /\ UNCHANGED last
    /\ UNCHANGED engine

NextEngine ==
    \/ Start
    \/ Ignored
    \/ CmdInit
    \/ CmdNewGame
    \/ CmdPlay
    \/ CmdPlayNoCoordinate
    \/ CmdGenmove
    \/ CmdUndo
    \/ CmdPass
    \/ WorkerReadMoves
    \/ WorkerEmitPass
    \/ WorkerClone
    \/ WorkerPick
    \/ WorkerApply

SpecEngine == InitEngine /\ [][NextEngine]_vars

----------------------------------------------------------------------------
(* BaseEngine: the thread's move or pass, call by call *)

\* The end of _run_ai_turn and _emit_pass, one step for each call that reads
\* or changes self.board: the commands are handled between them as between
\* the earlier calls of the thread.  last is the thread's latest call of
\* play_move, pass_turn or _check_game_state, with the grid a successful
\* play_move or pass_turn left.  The commands are those that change or
\* replace self.board, sent to an engine that has been started.

\* the thread goes on to the call at pc
MovedOn(ws, t, pc) == [ws EXCEPT ![t].pc = pc]

\* _run_ai_turn: if self.board.play_move(r, c, color): self._emit(MOVE ...)
\* else: self._emit(ERROR ...)
WorkerPlayMove ==
    /\ \E t \in DOMAIN workers :
          /\ workers[t].pc = "play_move"
          /\ LET res == play_move(heap, board, workers[t].move[1], workers[t].move[2],
                                  workers[t].color)
             IN /\ WithinHistory(res.H, board)
                /\ EnginePublish(res.H, board,
                                 IF res.ret THEN MovedOn(workers, t, "_emit_board_update")
                                 ELSE Without(workers, t))
                /\ out' = IF res.ret
                          THEN <<[tag |-> "MOVE", move |-> workers[t].move]>>
                          ELSE <<ErrorMessage("Failed to apply move")>>
                /\ last' = IF res.ret
                           THEN [op |-> "play_move", ret |-> TRUE,
                                 grid |-> GridOf(res.H, board)]
                           ELSE [op |-> "play_move", ret |-> FALSE]
    /\ UNCHANGED engine

\* _emit_pass: if self.board.pass_turn(color): self._emit(PASS ...)
\* else: self._emit(ERROR ...)
WorkerPassTurn ==
    /\ \E t \in DOMAIN workers :
          /\ workers[t].pc = "_emit_pass"
          /\ LET res == pass_turn(heap, board, workers[t].color)
             IN /\ WithinHistory(res.H, board)
                /\ EnginePublish(res.H, board,
                                 IF res.ret THEN MovedOn(workers, t, "_emit_board_update")
                                 ELSE Without(workers, t))
                /\ out' = IF res.ret
                          THEN <<[tag |-> "PASS", color |-> workers[t].color]>>
                          ELSE <<ErrorMessage("Cannot pass")>>
                /\ last' = IF res.ret
                           THEN [op |-> "pass_turn", ret |-> TRUE,
                                 grid |-> GridOf(res.H, board)]
                           ELSE [op |-> "pass_turn", ret |-> FALSE]
    /\ UNCHANGED engine

\* the thread's self._emit_board_update()
WorkerBoardUpdate ==
    /\ \E t \in DOMAIN workers :
          /\ workers[t].pc = "_emit_board_update"
          /\ workers' = MovedOn(workers, t, "_check_game_state")
    /\ out' = <<_emit_board_update(heap, engine, board)>>
    /\ UNCHANGED last
    /\ UNCHANGED <<heap, board, copy, engine>>

\* the thread's self._check_game_state(), after which it returns
WorkerCheckGameState ==
    /\ \E t \in DOMAIN workers :
          /\ workers[t].pc = "_check_game_state"
          /\ EnginePublish(heap, board, Without(workers, t))
    /\ out' = _check_game_state(heap, board)
    /\ last' = [op |-> "_check_game_state", ret |-> TRUE]
    /\ UNCHANGED engine

\* MinimaxEngine(board_size=4, search_depth=1, selection_top_k=2,
\* randomize_moves=False) after start()
InitEngineCalls ==
    /\ LET made == NewEngine(EmptyHeap, 4, 1, 2, FALSE)
       IN /\ heap = made.H
          /\ board = made.board
          /\ engine = [made.engine EXCEPT !._running = TRUE]
    /\ copy = <<>>
    /\ last = NoCall
    /\ workers = <<>>
    /\ out = <<Message("READY")>>

NextEngineCalls ==
    \/ CmdNewGame
    \/ CmdPlay
    \/ CmdGenmove
    \/ CmdUndo
    \/ WorkerReadMoves
    \/ WorkerPassTurn
    \/ WorkerClone
    \/ WorkerPick
    \/ WorkerPlayMove
    \/ WorkerBoardUpdate
    \/ WorkerCheckGameState

SpecEngineCalls == InitEngineCalls /\ [][NextEngineCalls]_vars

----------------------------------------------------------------------------
(* Board: coordinates as strings *)

\* A string is the sequence of its characters.  The characters of code 32 to
\* 95, in the order of their codes, and the lower-case letters, of code 97 to
\* 122:
Ascii ==
    << " ", "!", "\"", "#", "$", "%", "&", "'", "(", ")", "*", "+",
       ",", "-", ".", "/", "0", "1", "2", "3", "4", "5", "6", "7",
       "8", "9", ":", ";", "<", "=", ">", "?", "@", "A", "B", "C",
       "D", "E", "F", "G", "H", "I", "J", "K", "L", "M", "N", "O",
       "P", "Q", "R", "S", "T", "U", "V", "W", "X", "Y", "Z", "[",
       "\\", "]", "^", "_" >>

LowerCase ==
    << "a", "b", "c", "d", "e", "f", "g", "h", "i", "j", "k", "l",
       "m", "n", "o", "p", "q", "r", "s", "t", "u", "v", "w", "x",
       "y", "z" >>

\* chr and ord on these characters: " " has code 32 and "a" has code 97
chr(code) ==
    IF code >= 97 THEN LowerCase[code - 97 + 1]
    ELSE Ascii[code - 32 + 1]

ord(ch) ==
    IF \E i \in 1..Len(LowerCase) : LowerCase[i] = ch
    THEN 97 - 1 + CHOOSE i \in 1..Len(LowerCase) : LowerCase[i] = ch
    ELSE 32 - 1 + CHOOSE i \in 1..Len(Ascii) : Ascii[i] = ch

\* str.upper() of one character
upper(ch) == IF ord(ch) \in ord("a")..ord("z") THEN chr(ord(ch) - ord("a") + ord("A")) ELSE ch

IsDigit(ch) == ord(ch) \in ord("0")..ord("9")

\* str(n) for n >= 0
RECURSIVE str(_)
str(n) ==
    IF n < 10 THEN <<chr(ord("0") + n)>>
    ELSE Append(str(n \div 10), chr(ord("0") + (n % 10)))

\* the strings of digits: what int(s) is applied to here; it raises
\* ValueError for the empty string and for a character it cannot read
IsNumber(s) == s # <<>> /\ \A i \in 1..Len(s) : IsDigit(s[i])

\* int(s) for a string of digits
RECURSIVE int(_)
int(s) ==
    IF Len(s) = 1 THEN ord(s[1]) - ord("0")
    ELSE 10 * int(SubSeq(s, 1, Len(s) - 1)) + ord(s[Len(s)]) - ord("0")

\* coord_to_str with the row as it is counted in the grid, from 0
coord_to_str_from_zero(r, c) == <<chr(65 + c)>> \o str(r)

\* f"{chr(65+c)}{r+1}"
coord_to_str(r, c) == <<chr(65 + c)>> \o str(r + 1)

\* c = ord(coord[0].upper()) - 65; r = int(coord[1:]) - 1; return r, c
\* (the exception raised, if any, and the pair returned)
str_to_coord(coord) ==
    IF ~IsNumber(Tail(coord)) THEN [raised |-> "ValueError", ret |-> <<>>]
    ELSE [raised |-> "",
          ret |-> <<int(Tail(coord)) - 1, ord(upper(coord[1])) - 65>>]

\* a Board of each size explored
InitCoord ==
    /\ \E size \in BoardSizes \cup {MaxCoordSize} :
          LET made == NewBoard(EmptyHeap, size)
          IN /\ heap = made.H
             /\ board = made.ret
    /\ copy = <<>>
    /\ last = NoCall
    /\ NoEngineYet

\* self.coord_to_str(r, c) for a cell of the Board as constructed
CoordToStr ==
    /\ last = NoCall
    /\ \E r \in 0..Self(heap, board).size - 1, c \in 0..Self(heap, board).size - 1 :
          last' = [op |-> "coord_to_str", r |-> r, c |-> c, ret |-> coord_to_str(r, c)]
    /\ UNCHANGED <<heap, board, copy, engine, workers, out>>

\* Board.str_to_coord(coord) for the string coord_to_str has just returned,
\* as it is and with its letter in lower case
StrToCoord ==
    /\ last.op = "coord_to_str"
    /\ \E coord \in {last.ret} \cup
                     (IF ord(last.ret[1]) \in ord("A")..ord("Z")
                      THEN {<<chr(ord(last.ret[1]) - ord("A") + ord("a"))>> \o Tail(last.ret)}
                      ELSE {}) :
          last' = [op |-> "str_to_coord", coord |-> coord, of |-> <<last.r, last.c>>,
                   raised |-> str_to_coord(coord).raised,
                   ret |-> str_to_coord(coord).ret]
    /\ UNCHANGED <<heap, board, copy, engine, workers, out>>

NextCoord == CoordToStr \/ StrToCoord

SpecCoord == InitCoord /\ [][NextCoord]_vars

----------------------------------------------------------------------------
(* LocalEngine: its own copy of the search *)

\* LocalEngine(board_size, search_depth): search_depth is kept as given
NewLocalEngine(H, board_size, search_depth) ==
    LET made == NewBoard(H, board_size)
    IN [H |-> made.H,
        board |-> made.ret,
        engine |-> [board_size |-> board_size,
                    _running |-> FALSE,
                    search_depth |-> search_depth,
                    _search_color |-> BLACK]]

RECURSIVE local_minimax(_, _, _, _, _, _, _)
RECURSIVE LocalLoop(_, _, _, _, _, _, _, _, _, _, _)
RECURSIVE LocalStep(_, _, _, _, _, _, _, _, _, _, _)

\* self._minimax(child, child.current_player, depth - 1, alpha, beta)
LocalChild(made, e, depth, alpha, beta) ==
    local_minimax(made.H, e, made.ret, Self(made.H, made.ret).current_player,
                  depth - 1, alpha, beta)

\* the `for move in valid_moves` loop of LocalEngine._minimax from the i-th
\* move on
LocalLoop(H, e, b, player, depth, alpha, beta, valid_moves, i, value, best_move) ==
    IF i > Len(valid_moves) THEN [H |-> H, move |-> best_move, score |-> value]
    ELSE LocalStep(LocalChild(ChildAfter(H, b, valid_moves[i], player),
                              e, depth, alpha, beta),
                   e, b, player, depth, alpha, beta, valid_moves, i, value, best_move)

\* the rest of the loop body, once the i-th child's search has returned sub
LocalStep(sub, e, b, player, depth, alpha, beta, valid_moves, i, value, best_move) ==
    LET maximizing == player = e._search_color
        better == IF maximizing THEN sub.score > value ELSE sub.score < value
        value1 == IF better THEN sub.score ELSE value
        best1 == IF better THEN valid_moves[i] ELSE best_move
        alpha1 == IF maximizing THEN Max(alpha, value1) ELSE alpha
        beta1 == IF maximizing THEN beta ELSE Min(beta, value1)
    IN IF beta1 <= alpha1 THEN [H |-> sub.H, move |-> best1, score |-> value1]
       ELSE LocalLoop(sub.H, e, b, player, depth, alpha1, beta1,
                      valid_moves, i + 1, value1, best1)

\* return self._minimax(board_pass, opponent, depth - 1, alpha, beta)
LocalPass(made, e, opponent, depth, alpha, beta) ==
    local_minimax(made.H, e, made.ret, opponent, depth - 1, alpha, beta)

\* the body of LocalEngine._minimax below
\* `valid_moves = board.get_valid_moves(player)`; its _evaluate_board and
\* _corner_heuristic are those of MinimaxEngine, line for line
LocalBody(H, e, b, player, depth, alpha, beta, valid_moves) ==
    IF depth = 0 \/ is_game_over(H, b) THEN Leaf(H, e, b)
    ELSE IF valid_moves = <<>>
    THEN IF has_valid_move(H, b, Opponent(player))
         THEN LocalPass(PassedClone(clone(H, b), Opponent(player)),
                        e, Opponent(player), depth, alpha, beta)
         ELSE Leaf(H, e, b)
    ELSE LocalLoop(H, e, b, player, depth, alpha, beta, valid_moves, 1,
                   IF player = e._search_color THEN -Infinity ELSE Infinity,
                   NoMove)

local_minimax(H, e, b, player, depth, alpha, beta) ==
    LocalBody(H, e, b, player, depth, alpha, beta, get_valid_moves(H, b, player))

----------------------------------------------------------------------------
(* _minimax called at a root with the full window *)

\* a MinimaxEngine with the default search_depth or a LocalEngine with one of
\* the configured depths, on a 4x4 Board
InitMinimax ==
    /\ \E made \in {NewEngine(EmptyHeap, 4, 3, 2, FALSE)}
                      \cup {NewLocalEngine(EmptyHeap, 4, search_depth) :
                                search_depth \in ConfiguredDepths} :
          /\ heap = made.H
          /\ board = made.board
          /\ engine = made.engine
    /\ copy = <<>>
    /\ last = NoCall
    /\ workers = <<>>
    /\ out = <<>>

IsLocalEngine(e) == "selection_top_k" \notin DOMAIN e

\* self._minimax(board, player, depth, -inf, inf) of the engine's class
RootSearch(H, e, b, player, depth) ==
    IF IsLocalEngine(e) THEN local_minimax(H, e, b, player, depth, -Infinity, Infinity)
    ELSE _minimax(H, e, b, player, depth, -Infinity, Infinity)

\* the discs on the Board b
Discs(H, b) == CountOf(H, b, BLACK) + CountOf(H, b, WHITE)

\* the discs on the fullest Board of the store
MostDiscs(H) ==
    CHOOSE n \in {Discs(H, b) : b \in DOMAIN H.boards} :
        \A b \in DOMAIN H.boards : Discs(H, b) <= n

\* what a root call leaves in `last`: its arguments, the pair it returned,
\* the number of Boards the search made, and how many discs more than the
\* root the fullest of them holds
Searched(res, player, color, depth) ==
    /\ Publish(res.H, <<board>> \o copy)
    /\ last' = [op |-> "_minimax", player |-> player, color |-> color, depth |-> depth,
                move |-> res.move, score |-> res.score,
                made |-> Fresh(res.H.boards) - Fresh(heap.boards),
                grown |-> MostDiscs(res.H) - MostDiscs(heap)]

\* self._search_color = color, then _minimax on the snapshot for a player to
\* move and a depth
CallMinimax ==
    /\ copy # <<>>
    /\ last.op = "clone"
    /\ \E player \in Colors, color \in Colors, depth \in 0..MaxRootDepth :
          /\ engine' = [engine EXCEPT !._search_color = color]
          /\ Searched(RootSearch(heap, [engine EXCEPT !._search_color = color],
                                  copy[1], player, depth),
                      player, color, depth)
    /\ UNCHANGED <<workers, out>>

\* move, _ = self._minimax(board_snapshot, color, self.search_depth, -inf, inf)
AiSearch(made, e, color) ==
    local_minimax(made.H, e, made.ret, color, e.search_depth, -Infinity, Infinity)

\* if move is None: move = valid_moves[0]
ChosenMove(move, valid_moves) == IF move = NoMove THEN valid_moves[1] ELSE move

\* _ai_move from `r, c = move` on: the move is played on self.board whatever
\* play_move returns, then MOVE, the board update and the result are sent
AiPlayed(color, valid_moves, res) ==
    LET move == ChosenMove(res.move, valid_moves)
        played == play_move(res.H, board, move[1], move[2], color)
    IN /\ Publish(played.H, <<board>>)
       /\ engine' = [engine EXCEPT !._search_color = color]
       /\ out' = Announce([tag |-> "MOVE", move |-> coord_to_str(move[1], move[2])],
                          played.H, engine, board)
       /\ last' = [op |-> "_ai_move", color |-> color, valid_moves |-> valid_moves,
                   returned |-> res.move, move |-> move]

\* _ai_move when color has no move: if self.board.pass_turn(color): ... else: ...
AiPassed(color, res) ==
    /\ Publish(res.H, <<board>>)
    /\ engine' = engine
    /\ out' = IF res.ret
              THEN Announce([tag |-> "PASS", color |-> color], res.H, engine, board)
              ELSE <<ErrorMessage("Cannot pass")>>
    /\ last' = [op |-> "_ai_move", color |-> color, valid_moves |-> <<>>,
                returned |-> NoMove, move |-> NoMove]

\* LocalEngine._ai_move(color), run to its end with no other command between
AiMove ==
    /\ IsLocalEngine(engine)
    /\ Len(Self(heap, board).history) < MaxSearchPly
    /\ \E color \in Colors :
          LET valid_moves == get_valid_moves(heap, board, color)
          IN IF valid_moves = <<>>
             THEN AiPassed(color, pass_turn(heap, board, color))
             ELSE AiPlayed(color, valid_moves,
                           AiSearch(clone(heap, board),
                                    [engine EXCEPT !._search_color = color], color))
    /\ UNCHANGED workers

\* self._search_color = color, then self._evaluate_board(board) on the snapshot
EvaluateBoard ==
    /\ copy # <<>>
    /\ last.op = "clone"
    /\ \E color \in Colors :
          /\ engine' = [engine EXCEPT !._search_color = color]
          /\ last' = [op |-> "_evaluate_board", color |-> color,
                      ret |-> _evaluate_board(heap, [engine EXCEPT !._search_color = color],
                                              copy[1])]
    /\ UNCHANGED <<heap, board, copy, workers, out>>

NextMinimax == SearchPlay \/ TakeSnapshot \/ CallMinimax \/ AiMove \/ EvaluateBoard

SpecMinimax == InitMinimax /\ [][NextMinimax]_vars

----------------------------------------------------------------------------
(* _minimax called on positions set up from a state string *)

\* an engine of either class and a 4x4 position of at most MaxSearchDiscs
\* discs made by board_from_state_string
InitSearchPosition ==
    /\ \E cells \in SUBSET ((0..3) \X (0..3)) :
          /\ Cardinality(cells) <= MaxSearchDiscs
          /\ \E colour \in [cells -> Colors] :
                LET made == board_from_state_string(EmptyHeap, 4,
                                StateString(4, colour), BLACK)
                IN /\ heap = made.H
                   /\ board = made.ret
    /\ engine \in {NewEngine(EmptyHeap, 4, 3, 2, FALSE).engine,
                   NewLocalEngine(EmptyHeap, 4, 3).engine}
    /\ copy = <<>>
    /\ last = NoCall
    /\ workers = <<>>
    /\ out = <<>>

NextSearchPosition == TakeSnapshot \/ CallMinimax

SpecSearchPosition == InitSearchPosition /\ [][NextSearchPosition]_vars

----------------------------------------------------------------------------
(* _minimax called with any integer for the depth *)

\* the depths below zero a search is started with
DepthsBelowZero == {-1}

\* CallMinimax, the depth being any of the integers tried
CallMinimaxAtAnyDepth ==
    /\ copy # <<>>
    /\ last.op = "clone"
    /\ \E player \in Colors, color \in Colors, depth \in DepthsBelowZero \cup 0..MaxRootDepth :
          /\ engine' = [engine EXCEPT !._search_color = color]
          /\ Searched(RootSearch(heap, [engine EXCEPT !._search_color = color],
                                  copy[1], player, depth),
                      player, color, depth)
    /\ UNCHANGED <<workers, out>>

NextAnyDepth == TakeSnapshot \/ CallMinimaxAtAnyDepth

SpecAnyDepth == InitSearchPosition /\ [][NextAnyDepth]_vars

----------------------------------------------------------------------------
(* EngineMatch.play: two engines play a game on one Board *)

\* board = Board(self.board_size); move_log = []  (out is the move_log, last
\* what the latest turn of the loop did)
InitMatch ==
    /\ LET made == NewBoard(EmptyHeap, 4)
       IN /\ heap = made.H
          /\ board = made.ret
    /\ copy = <<>>
    /\ last = NoCall
    /\ NoEngineYet

\* what an engine's _pick_move may hand back: a legal move (the first or the
\* last of the list), a cell that may not be played, a cell off the board,
\* or None
EngineReturns(valid_moves) ==
    {valid_moves[1], valid_moves[Len(valid_moves)], <<0, 0>>, <<-1, 0>>, NoMove}

\* EnginePlayer.choose_move with the engine returning picked: the snapshot is
\* a clone, its legal moves are looked up again
choose_move(H, b, color, picked) ==
    LET snapshot == clone(H, b)
        valid_moves == get_valid_moves(snapshot.H, snapshot.ret, color)
    IN IF valid_moves = <<>> THEN NoMove
       ELSE IF picked \in SeqRange(valid_moves) THEN picked
       ELSE valid_moves[1]

\* if move is None or not board.play_move(move[0], move[1], color): the
\* fallback valid_moves[0] is played; the store and the cell that is logged
MatchPlaced(H, b, color, valid_moves, move) ==
    IF move = NoMove
    THEN [H |-> play_move(H, b, valid_moves[1][1], valid_moves[1][2], color).H,
          cell |-> valid_moves[1]]
    ELSE IF ~play_move(H, b, move[1], move[2], color).ret
    THEN [H |-> play_move(play_move(H, b, move[1], move[2], color).H, b,
                          valid_moves[1][1], valid_moves[1][2], color).H,
          cell |-> valid_moves[1]]
    ELSE [H |-> play_move(H, b, move[1], move[2], color).H, cell |-> move]

\* the rest of the loop body once the engine has returned
MatchMoved(color, valid_moves, picked, placed) ==
    /\ Publish(placed.H, <<board>>)
    /\ out' = Append(out, <<color, coord_to_str(placed.cell[1], placed.cell[2])>>)
    /\ last' = [op |-> "play", color |-> color, picked |-> picked, cell |-> placed.cell,
                ret |-> TRUE]

\* the branch `if not valid_moves`: a pass that is logged, or break
MatchPassed(color, res) ==
    /\ Publish(res.H, <<board>>)
    /\ out' = IF res.ret THEN Append(out, <<color, "PASS">>) ELSE out
    /\ last' = [op |-> IF res.ret THEN "pass" ELSE "break", color |-> color, ret |-> res.ret]

\* one turn of `while not board.is_game_over()`
MatchTurn ==
    /\ last.op \notin {"break", "MatchResult"}
    /\ ~is_game_over(heap, board)
    /\ LET color == Self(heap, board).current_player
           valid_moves == get_valid_moves(heap, board, color)
       IN IF valid_moves = <<>>
          THEN MatchPassed(color, pass_turn(heap, board, color))
          ELSE \E picked \in EngineReturns(valid_moves) :
                  MatchMoved(color, valid_moves, picked,
                             MatchPlaced(heap, board, color, valid_moves,
                                         choose_move(heap, board, color, picked)))
    /\ UNCHANGED <<engine, workers>>

\* _determine_winner(scores)
_determine_winner(scores) ==
    IF scores[BLACK] > scores[WHITE] THEN BLACK
    ELSE IF scores[WHITE] > scores[BLACK] THEN WHITE
    ELSE "DRAW"

\* after the loop: scores = board.get_score(); return MatchResult(...)
MatchReturn ==
    /\ last.op # "MatchResult"
    /\ last.op = "break" \/ is_game_over(heap, board)
    /\ last' = [op |-> "MatchResult", ret |-> TRUE,
                winner_color |-> _determine_winner(get_score(heap, board)),
                scores |-> get_score(heap, board)]
    /\ UNCHANGED <<heap, board, copy, engine, workers, out>>

NextMatch == MatchTurn \/ MatchReturn

\* play runs in one thread, so its next step is always taken. A step is
\* possible exactly until play has returned (the guards of MatchTurn and
\* MatchReturn cover every state with last.op # "MatchResult"), so that
\* MatchFairness is WF_vars(NextMatch) with ENABLED <<NextMatch>>_vars written
\* out.
MatchFairness == []<>(last.op = "MatchResult") \/ []<><<NextMatch>>_vars

SpecMatch == InitMatch /\ [][NextMatch]_vars /\ MatchFairness

----------------------------------------------------------------------------
(* What the Board under test looks like from outside *)

Size == Self(heap, board).size

Grid == GridOf(heap, board)

CurrentPlayer == Self(heap, board).current_player

History == Self(heap, board).history

\* the contents a history entry holds: its cells and its player
EntryView(H, e) == [grid |-> H.grids[e.grid], current_player |-> e.current_player]

HistoryView(H, b) ==
    [i \in 1..Len(Self(H, b).history) |-> EntryView(H, Self(H, b).history[i])]

BoardView(H, b) == [grid |-> GridOf(H, b), current_player |-> Self(H, b).current_player]

OnGrid(size, r, c) == r \in 0..size - 1 /\ c \in 0..size - 1

Compass == {d \in {-1, 0, 1} \X {-1, 0, 1} : d # <<0, 0>>}

\* In direction d from (r, c): k opponent discs, then a disc of player.
Captures(g, size, r, c, d, k, player) ==
    /\ \A j \in 1..k :
          /\ OnGrid(size, r + j * d[1], c + j * d[2])
          /\ g[r + j * d[1]][c + j * d[2]] = Opponent(player)
    /\ OnGrid(size, r + (k + 1) * d[1], c + (k + 1) * d[2])
    /\ g[r + (k + 1) * d[1]][c + (k + 1) * d[2]] = player

\* The rule of the game, stated on the cells alone.  A run and the disc that
\* closes it lie beyond (r, c) on a line of size cells: k + 1 <= size - 1.
LegalByRule(g, size, r, c, player) ==
    /\ OnGrid(size, r, c)
    /\ g[r][c] = EMPTY
    /\ \E d \in Compass, k \in 1..size - 2 : Captures(g, size, r, c, d, k, player)

\* The grid after player's disc goes to (r, c), stated on the cells alone.
GridByRule(g, size, r, c, player) ==
    [x \in 0..size - 1 |-> [y \in 0..size - 1 |->
        IF <<x, y>> = <<r, c>> THEN player
        ELSE IF \E d \in Compass, k \in 1..size :
                   /\ Captures(g, size, r, c, d, k, player)
                   /\ \E j \in 1..k : <<x, y>> = <<r + j * d[1], c + j * d[2]>>
             THEN player
             ELSE g[x][y]]]

\* The opening position: WHITE on the main diagonal of the centre, BLACK on the other.
OpeningGrid(size) ==
    LET mid == size \div 2
    IN [x \in 0..size - 1 |-> [y \in 0..size - 1 |->
          IF <<x, y>> \in {<<mid - 1, mid - 1>>, <<mid, mid>>} THEN WHITE
          ELSE IF <<x, y>> \in {<<mid, mid - 1>>, <<mid - 1, mid>>} THEN BLACK
          ELSE EMPTY]]

Played == last.op = "play_move" /\ last.ret

\* the directions in which the play recorded in `last` turned discs over
FlippedDirections ==
    LET before == EntryView(heap, History[Len(History)]).grid
    IN {d \in Compass :
          /\ OnGrid(Size, last.r + d[1], last.c + d[2])
          /\ before[last.r + d[1]][last.c + d[2]] # Grid[last.r + d[1]][last.c + d[2]]}

----------------------------------------------------------------------------
(* C1 *)

\* C1: in every reachable position, for every (r, c) on or one step off the
\* board and either colour, is_valid_move answers what the rule says: the cell
\* is on the board and empty and some direction holds a run of one or more
\* opponent discs closed by a disc of player.
C1_ValidMoveIsTheRule ==
    \A r \in -1..Size, c \in -1..Size, player \in Colors :
        is_valid_move(heap, board, r, c, player) = LegalByRule(Grid, Size, r, c, player)

\* C1 witness: a position where a move is legal through a run of two opponent
\* discs, and another empty cell touches an opponent disc yet is not legal.
C1_Witness ==
    /\ \E r \in 0..Size - 1, c \in 0..Size - 1, player \in Colors, d \in Compass :
          /\ Grid[r][c] = EMPTY
          /\ Captures(Grid, Size, r, c, d, 2, player)
          /\ is_valid_move(heap, board, r, c, player)
    /\ \E r \in 0..Size - 1, c \in 0..Size - 1, player \in Colors, d \in Compass :
          /\ Grid[r][c] = EMPTY
          /\ OnGrid(Size, r + d[1], c + d[2])
          /\ Grid[r + d[1]][c + d[2]] = Opponent(player)
          /\ ~is_valid_move(heap, board, r, c, player)

----------------------------------------------------------------------------
(* C2 *)

\* C2: a successful play_move(r, c, player) leaves exactly the grid the rule
\* gives (the disc placed, every closed opponent run in every direction turned
\* over, every other cell as it was) and makes the opponent of player the
\* current player; and BLACK playing D3 on the 8x8 opening turns over D4 alone,
\* for 4 BLACK discs, 1 WHITE disc and WHITE to move.
C2_PlayMoveIsTheRule ==
    [][(last'.op = "play_move" /\ last'.ret) =>
        /\ GridOf(heap', board') = GridByRule(Grid, Size, last'.r, last'.c, last'.player)
        /\ Self(heap', board').current_player = Opponent(last'.player)
        /\ (/\ Size = 8
            /\ Grid = OpeningGrid(8)
            /\ <<last'.r, last'.c, last'.player>> = <<2, 3, BLACK>>)
           => /\ {m \in (0..7) \X (0..7) : GridOf(heap', board')[m[1]][m[2]] # Grid[m[1]][m[2]]}
                    = {<<2, 3>>, <<3, 3>>}
              /\ get_score(heap', board') = (BLACK :> 4) @@ (WHITE :> 1)
              /\ Self(heap', board').current_player = WHITE
      ]_vars

\* C2 witness: a play that turned discs over in two directions at once.
C2_Witness == Played /\ Cardinality(FlippedDirections) >= 2

----------------------------------------------------------------------------
(* C3 *)

\* C3: a call of play_move, pass_turn or undo that returns false leaves the
\* grid, current_player and the history stack exactly as they were, for
\* coordinates on the board or off it (negative or too large).
C3_RejectedCallChangesNothing ==
    [][(last'.ret = FALSE) => (heap' = heap /\ board' = board)]_vars

\* C3 witness: play_move was refused for a negative row on a board that has
\* a history to lose.
C3_Witness ==
    /\ last.op = "play_move"
    /\ ~last.ret
    /\ last.r < 0
    /\ Len(History) > 0

----------------------------------------------------------------------------
(* C4 *)

\* C4: every successful play_move or pass_turn pushes the state it found, and
\* every successful undo restores the state on top of the stack and pops it, so
\* undo returns true exactly while a call is left to undo, a Board whose history
\* is empty again is the opening position with BLACK to move, and undo on an
\* empty history returns false and changes nothing.
C4_UndoIsTheInverse ==
    /\ [](Len(History) = 0 => (Grid = OpeningGrid(Size) /\ CurrentPlayer = BLACK))
    /\ [][(last'.op \in {"play_move", "pass_turn"} /\ last'.ret) =>
            HistoryView(heap', board') = Append(HistoryView(heap, board), BoardView(heap, board))
         ]_vars
    /\ [][(last'.op = "undo") =>
            /\ last'.ret = (Len(History) > 0)
            /\ last'.ret =>
                 /\ BoardView(heap', board') = HistoryView(heap, board)[Len(History)]
                 /\ HistoryView(heap', board')
                       = SubSeq(HistoryView(heap, board), 1, Len(History) - 1)
            /\ ~last'.ret => heap' = heap
         ]_vars

\* C4 witness: the last call left to undo was undone.
C4_Witness ==
    /\ last.op = "undo"
    /\ last.ret
    /\ Len(History) = 0

----------------------------------------------------------------------------
(* C9 *)

\* all of a Board that a caller can observe
FullView(H, b) ==
    [grid |-> GridOf(H, b),
     current_player |-> Self(H, b).current_player,
     history |-> HistoryView(H, b)]

\* C9: clone() returns a Board with the grid and current_player of the
\* original and an empty history, and leaves the original as it was; after
\* that, no play_move, pass_turn or undo on the clone changes the original's
\* grid, current_player or history, and none on the original changes the clone's.
C9_CloneIsIndependent ==
    /\ [][(last'.op = "clone") =>
            /\ BoardView(heap', copy'[1]) = BoardView(heap, board)
            /\ Self(heap', copy'[1]).history = <<>>
            /\ FullView(heap', board') = FullView(heap, board)
         ]_vars
    /\ [][(last'.op # "clone" /\ last'.on = "copy") =>
            FullView(heap', board') = FullView(heap, board)
         ]_vars
    /\ [][(last'.op # "clone" /\ last'.on = "board" /\ copy # <<>>) =>
            FullView(heap', copy'[1]) = FullView(heap, copy[1])
         ]_vars

\* C9 witness: a move was played on the clone of a Board that has itself been
\* played on before, and the two grids now differ.
C9_Witness ==
    /\ copy # <<>>
    /\ last.op = "play_move" /\ last.on = "copy" /\ last.ret
    /\ Len(History) > 0
    /\ GridOf(heap, copy[1]) # Grid

----------------------------------------------------------------------------
(* C10 *)

\* C10: a call of _pick_move leaves the snapshot it is given with the grid,
\* current_player and history it had, and leaves the engine's own Board as it
\* was: the search plays on clones only.
C10_SearchLeavesBoardsAlone ==
    [][(last'.op = "_pick_move") =>
        /\ FullView(heap', copy'[1]) = FullView(heap, copy[1])
        /\ FullView(heap', board') = FullView(heap, board)
      ]_vars

\* C10 witness: a search of depth 2 or more returned a move for a snapshot of
\* a Board that has been played on.
C10_Witness ==
    /\ last.op = "_pick_move"
    /\ last.move # NoMove
    /\ engine.search_depth >= 2
    /\ Len(History) > 0

----------------------------------------------------------------------------
(* C5 *)

\* C5: _pick_move called with a non-empty valid_moves returns a member of
\* that list, whatever list it is given.
C5_PickReturnsAMember ==
    (last.op = "_pick_move" /\ last.valid_moves # <<>>)
        => last.move \in SeqRange(last.valid_moves)

----------------------------------------------------------------------------
(* C6 *)

\* C6: _pick_move returns None exactly when the valid_moves it is given is
\* empty.
C6_NoneIffNoValidMoves ==
    (last.op = "_pick_move") => (last.move = NoMove <=> last.valid_moves = <<>>)

----------------------------------------------------------------------------
(* C7 *)

\* the Boards a thread looks at: it has read the legal moves and not yet
\* returned
InFlight(w) == w.pc \in {"clone", "_pick_move", "play_move"}

\* C7: while a GENMOVE thread is between reading the legal moves and applying
\* its move, no step changes or replaces the engine's Board, and a thread that
\* holds a snapshot finds the engine's Board with the grid and current_player
\* of that snapshot.
C7_BoardStableDuringSearch ==
    /\ [][\A t \in DOMAIN workers \cap DOMAIN workers' :
            InFlight(workers[t]) => FullView(heap', board') = FullView(heap, board)
         ]_vars
    /\ [](\A t \in DOMAIN workers :
            workers[t].snapshot # <<>>
                => BoardView(heap, board) = BoardView(heap, workers[t].snapshot[1]))

----------------------------------------------------------------------------
(* C8 *)

\* C8: a cell that a step fills holds, after the step, a disc of the colour
\* that was current_player before the step.
C8_OnlyCurrentPlayerPlaces ==
    [][\A r \in 0..Size - 1, c \in 0..Size - 1 :
          (Grid[r][c] = EMPTY /\ GridOf(heap', board')[r][c] # EMPTY)
              => GridOf(heap', board')[r][c] = CurrentPlayer
      ]_vars

----------------------------------------------------------------------------
(* C11 *)

\* C11: pass_turn(player) returns true exactly when player is current_player,
\* with or without legal moves for player; a successful call leaves the grid
\* as it was, makes the opponent of player the current player and pushes one
\* history entry holding the state it found; a refused call changes nothing.
C11_PassTurnIsTheTurnCheck ==
    [][(last'.op = "pass_turn") =>
        /\ last'.ret = (last'.player = CurrentPlayer)
        /\ last'.ret =>
              /\ GridOf(heap', board') = Grid
              /\ Self(heap', board').current_player = Opponent(last'.player)
              /\ HistoryView(heap', board')
                    = Append(HistoryView(heap, board), BoardView(heap, board))
        /\ ~last'.ret => (heap' = heap /\ board' = board)
      ]_vars

\* C11 witness: a pass succeeded for a colour that had legal moves, on a Board
\* that had been played on.
C11_Witness ==
    /\ last.op = "pass_turn"
    /\ last.ret
    /\ has_valid_move(heap, board, last.player)
    /\ Len(History) > 1

----------------------------------------------------------------------------
(* C12 *)

\* the discs of each colour once move is played for player on a clone of b
ScoreAfter(H, b, move, player) ==
    get_score(ChildAfter(H, b, move, player).H, ChildAfter(H, b, move, player).ret)

\* C12: in every reachable position and for either colour, every move that
\* get_valid_moves lists satisfies is_valid_move, and playing it on a clone
\* gives the colour two discs or more (the one placed and one or more turned
\* over) and takes one or more from the opponent.
C12_ValidMovesCapture ==
    \A player \in Colors :
        \A m \in SeqRange(get_valid_moves(heap, board, player)) :
            /\ is_valid_move(heap, board, m[1], m[2], player)
            /\ ScoreAfter(heap, board, m, player)[player]
                  >= get_score(heap, board)[player] + 2
            /\ ScoreAfter(heap, board, m, player)[Opponent(player)]
                  <= get_score(heap, board)[Opponent(player)] - 1

\* C12 witness: a position that has been played on where a listed move gains
\* three discs or more, and another gains exactly two.
C12_Witness ==
    /\ Len(History) > 0
    /\ \E player \in Colors :
          /\ \E m \in SeqRange(get_valid_moves(heap, board, player)) :
                ScoreAfter(heap, board, m, player)[player]
                    >= get_score(heap, board)[player] + 3
          /\ \E m \in SeqRange(get_valid_moves(heap, board, player)) :
                ScoreAfter(heap, board, m, player)[player]
                    = get_score(heap, board)[player] + 2

----------------------------------------------------------------------------
(* Minimax without pruning: the value the search is meant to compute *)

RECURSIVE PlainMinimax(_, _, _, _, _)
RECURSIVE PlainBest(_, _, _, _, _, _, _, _)

\* the value of the position a move leads to, for the side to move there
PlainChild(made, e, depth) ==
    PlainMinimax(made.H, e, made.ret, Self(made.H, made.ret).current_player, depth)

\* the value kept once a child's score is known: the larger at a maximizing
\* node, the smaller at a minimizing one
PlainKeep(score, H, e, b, player, depth, moves, i, value) ==
    IF player = e._search_color
    THEN (IF score > value
          THEN PlainBest(H, e, b, player, depth, moves, i + 1, score)
          ELSE PlainBest(H, e, b, player, depth, moves, i + 1, value))
    ELSE (IF score < value
          THEN PlainBest(H, e, b, player, depth, moves, i + 1, score)
          ELSE PlainBest(H, e, b, player, depth, moves, i + 1, value))

PlainBest(H, e, b, player, depth, moves, i, value) ==
    IF i > Len(moves) THEN value
    ELSE PlainKeep(PlainChild(ChildAfter(H, b, moves[i], player), e, depth - 1),
                   H, e, b, player, depth, moves, i, value)

PlainNode(H, e, b, player, depth, moves) ==
    IF depth <= 0 \/ is_game_over(H, b) THEN _evaluate_board(H, e, b)
    ELSE IF moves = <<>> THEN PlainMinimax(H, e, b, Opponent(player), depth - 1)
    ELSE PlainBest(H, e, b, player, depth, moves, 1,
                   IF player = e._search_color THEN -Infinity ELSE Infinity)

\* the minimax value of b with player to move, depth plies deep, for the
\* colour e._search_color
PlainMinimax(H, e, b, player, depth) ==
    PlainNode(H, e, b, player, depth, get_valid_moves(H, b, player))

\* the exact value of each legal move of color on b, in the order of
\* get_valid_moves, for a search of e.search_depth plies by color
RECURSIVE ExactScoresFrom(_, _, _, _, _, _)
ExactScoresFrom(H, e, b, color, moves, i) ==
    IF i > Len(moves) THEN <<>>
    ELSE <<PlainChild(ChildAfter(H, b, moves[i], color), e, e.search_depth - 1)>>
            \o ExactScoresFrom(H, e, b, color, moves, i + 1)

ExactScores(H, e, b, color) ==
    ExactScoresFrom(H, [e EXCEPT !._search_color = color], b, color,
                    get_valid_moves(H, b, color), 1)

\* the first index of the largest value
FirstMax(values) ==
    CHOOSE i \in 1..Len(values) :
        /\ \A j \in 1..Len(values) : values[j] <= values[i]
        /\ \A j \in 1..i - 1 : values[j] < values[i]

----------------------------------------------------------------------------
(* C13 *)

\* the move of the first largest value among moves
FirstOfTheBest(moves, values) == moves[FirstMax(values)]

\* C13: with randomize_moves off, _pick_move returns the legal move of the
\* largest exact minimax value, and of several moves of that value the one
\* that comes first in the order of get_valid_moves.
C13_PickIsFirstArgMax ==
    (last.op = "_pick_move" /\ ~engine.randomize_moves)
        => last.move = FirstOfTheBest(get_valid_moves(heap, copy[1], last.color),
                                      ExactScores(heap, engine, copy[1], last.color))

\* C13 witness: a search without randomization, two plies deep or more, on a
\* position that has been played on, where a later legal move has the same
\* exact value as the move returned.
C13_Witness ==
    /\ last.op = "_pick_move"
    /\ ~engine.randomize_moves
    /\ engine.search_depth >= 2
    /\ Len(History) > 0
    /\ LET values == ExactScores(heap, engine, copy[1], last.color)
       IN \E j \in FirstMax(values) + 1..Len(values) : values[j] = values[FirstMax(values)]

----------------------------------------------------------------------------
(* C14 *)

\* what _pick_move may return on an engine whose earlier call was for the
\* colour before
ReturnsAfter(before, color, valid_moves) ==
    _pick_move(heap, [engine EXCEPT !._search_color = before], copy[1], color,
               valid_moves).rets

\* C14: with randomize_moves off, the move a _pick_move call returns is the
\* only one it can return for its board, color and valid_moves, whichever
\* colour the engine searched for in the call before.
C14_PickIsDeterministic ==
    [][(last'.op = "_pick_move" /\ ~engine.randomize_moves) =>
        \A before \in Colors :
            ReturnsAfter(before, last'.color, last'.valid_moves) = {last'.move}
      ]_vars

\* C14 witness: a search of two plies or more without randomization returned
\* a move for WHITE on a position that has been played on; the engine is
\* constructed searching for BLACK.
C14_Witness ==
    /\ last.op = "_pick_move"
    /\ ~engine.randomize_moves
    /\ engine.search_depth >= 2
    /\ last.color = WHITE
    /\ last.move # NoMove
    /\ Len(History) > 0

----------------------------------------------------------------------------
(* C15 *)

\* the place of a cell when rows are read one after the other
RowMajor(size, m) == m[1] * size + m[2]

\* C15: for either colour get_valid_moves lists exactly the cells for which
\* is_valid_move is true, each once, rows 0..N-1 in turn and columns 0..N-1
\* within a row; has_valid_move is true exactly when the list is not empty.
C15_ValidMovesInRowMajorOrder ==
    \A player \in Colors :
        LET moves == get_valid_moves(heap, board, player)
        IN /\ SeqRange(moves)
                = {m \in (0..Size - 1) \X (0..Size - 1) :
                      is_valid_move(heap, board, m[1], m[2], player)}
           /\ \A i \in 1..Len(moves) - 1 :
                 RowMajor(Size, moves[i]) < RowMajor(Size, moves[i + 1])
           /\ has_valid_move(heap, board, player) = (moves # <<>>)

\* C15 witness: a position where one colour has no legal move and the other
\* has one in a row and another in a later row and an earlier column.
C15_Witness ==
    /\ \E player \in Colors :
          /\ ~has_valid_move(heap, board, Opponent(player))
          /\ LET moves == get_valid_moves(heap, board, player)
             IN \E i \in 1..Len(moves) - 1 :
                   moves[i][1] < moves[i + 1][1] /\ moves[i][2] > moves[i + 1][2]

----------------------------------------------------------------------------
(* C16 *)

\* the cells of the Board that hold v
CellsOf(v) == {m \in (0..Size - 1) \X (0..Size - 1) : Grid[m[1]][m[2]] = v}

\* C16: a Board as constructed, of size 4 or 8, has WHITE on
\* (N/2-1, N/2-1) and (N/2, N/2), BLACK on (N/2, N/2-1) and (N/2-1, N/2),
\* every other cell EMPTY, BLACK to move, an empty history and a score of 2
\* for each colour.
C16_FreshBoardIsTheOpening ==
    (last = NoCall) =>
        /\ CellsOf(WHITE) = {<<Size \div 2 - 1, Size \div 2 - 1>>, <<Size \div 2, Size \div 2>>}
        /\ CellsOf(BLACK) = {<<Size \div 2, Size \div 2 - 1>>, <<Size \div 2 - 1, Size \div 2>>}
        /\ Cardinality(CellsOf(EMPTY)) = Size * Size - 4
        /\ CurrentPlayer = BLACK
        /\ History = <<>>
        /\ get_score(heap, board) = (BLACK :> 2) @@ (WHITE :> 2)

\* C16 witness: the Board constructed with size 8.
C16_Witness ==
    /\ last = NoCall
    /\ Size = 8
    /\ Cardinality(CellsOf(EMPTY)) = 60

----------------------------------------------------------------------------
(* C17 *)

\* C17: is_game_over() is true exactly when neither colour has a move in
\* get_valid_moves; every cell holds BLACK, WHITE or EMPTY, and the numbers of
\* BLACK, WHITE and EMPTY cells add up to N*N.
C17_GameOverAndCellCounts ==
    /\ is_game_over(heap, board)
          = (/\ get_valid_moves(heap, board, BLACK) = <<>>
             /\ get_valid_moves(heap, board, WHITE) = <<>>)
    /\ \A r \in 0..Size - 1, c \in 0..Size - 1 : Grid[r][c] \in {BLACK, WHITE, EMPTY}
    /\ get_score(heap, board)[BLACK] + get_score(heap, board)[WHITE]
          + Cardinality(CellsOf(EMPTY)) = Size * Size

\* C17 witness: a move was played and the game is over with discs of both
\* colours on the board and cells left empty.
C17_Witness ==
    /\ Played
    /\ is_game_over(heap, board)
    /\ CellsOf(BLACK) # {}
    /\ CellsOf(WHITE) # {}
    /\ CellsOf(EMPTY) # {}

----------------------------------------------------------------------------
(* C18 *)

\* C18: on a Board of 26 rows and columns or fewer, coord_to_str(r, c) is the
\* letter of the column counted from "A" followed by the row number counted
\* from 1, so that (2, 3) is "D3"; str_to_coord gives (r, c) back for it; and
\* no other cell of the Board has the same string.
C18_CoordinatesRoundTrip ==
    /\ [](last.op = "coord_to_str" =>
            /\ last.ret = <<chr(ord("A") + last.c)>> \o str(last.r + 1)
            /\ (<<last.r, last.c>> = <<2, 3>>) => last.ret = <<"D", "3">>
            /\ \A r \in 0..Size - 1, c \in 0..Size - 1 :
                  <<r, c>> # <<last.r, last.c>> => coord_to_str(r, c) # last.ret)
    /\ [][(last'.op = "str_to_coord" /\ last'.coord = last.ret) =>
            (last'.raised = "" /\ last'.ret = <<last.r, last.c>>)
         ]_vars

\* C18 witness: the string of the last cell of the largest Board, two digits
\* after the letter, was turned back into the cell.
C18_Witness ==
    /\ last.op = "str_to_coord"
    /\ Len(last.coord) = 3
    /\ last.coord[1] = "Z"
    /\ last.ret = <<Size - 1, Size - 1>>

----------------------------------------------------------------------------
(* C19 *)

\* the number of Boards a search that never cuts makes below b
RECURSIVE PlainMade(_, _, _, _)
RECURSIVE PlainMadeFrom(_, _, _, _, _, _)

PlainMadeChild(made, depth) ==
    1 + PlainMade(made.H, made.ret, Self(made.H, made.ret).current_player, depth)

PlainMadeFrom(H, b, player, depth, moves, i) ==
    IF i > Len(moves) THEN 0
    ELSE PlainMadeChild(ChildAfter(H, b, moves[i], player), depth - 1)
            + PlainMadeFrom(H, b, player, depth, moves, i + 1)

PlainMadeNode(H, b, player, depth, moves) ==
    IF depth <= 0 \/ is_game_over(H, b) THEN 0
    ELSE IF moves = <<>> THEN 1 + PlainMade(H, b, Opponent(player), depth - 1)
    ELSE PlainMadeFrom(H, b, player, depth, moves, 1)

PlainMade(H, b, player, depth) ==
    PlainMadeNode(H, b, player, depth, get_valid_moves(H, b, player))

\* C19: alpha-beta pruning does not change the result. Whatever the board,
\* the player to move, the searching colour and the depth, the score that
\* _minimax (of MinimaxEngine and of LocalEngine) returns for the full window
\* is the value of a depth-limited minimax that never prunes and follows the
\* same terminal, pass and maximizing/minimizing rules.
C19_PruningKeepsTheValue ==
    last.op = "_minimax" =>
        last.score = PlainMinimax(heap, engine, copy[1], last.player, last.depth)

\* a search of two plies or more that made fewer Boards than a search without
\* cuts makes: some sibling was pruned
C19_Witness ==
    /\ last.op = "_minimax"
    /\ last.depth >= 2
    /\ last.made < PlainMade(heap, copy[1], last.player, last.depth)

----------------------------------------------------------------------------
(* C20 *)

\* the first of moves whose value is the least
FirstOfTheLeast(moves, values) ==
    FirstOfTheBest(moves, [i \in 1..Len(values) |-> 0 - values[i]])

\* the exact values of player's moves on b in a search of depth plies for the
\* colour e._search_color
RootValues(H, e, b, player, depth) ==
    ExactScoresFrom(H, [e EXCEPT !.search_depth = depth], b, player,
                    get_valid_moves(H, b, player), 1)

\* a root call that had moves to try returned the first move of the best
\* exact value: the largest where the player is the searching colour, the
\* smallest where it is not
RootKeepsTheFirstBest ==
    (/\ last.op = "_minimax"
     /\ last.depth >= 1
     /\ get_valid_moves(heap, copy[1], last.player) # <<>>)
    => last.move = IF last.player = last.color
                   THEN FirstOfTheBest(get_valid_moves(heap, copy[1], last.player),
                                       RootValues(heap, engine, copy[1], last.player, last.depth))
                   ELSE FirstOfTheLeast(get_valid_moves(heap, copy[1], last.player),
                                        RootValues(heap, engine, copy[1], last.player, last.depth))

\* MinimaxEngine(board_size, search_depth, randomize_moves=False)._pick_move on
\* the Board b for color
MinimaxEnginePicks(H, b, board_size, search_depth, color) ==
    _pick_move(H, NewEngine(EmptyHeap, board_size, search_depth, 2, FALSE).engine,
               b, color, get_valid_moves(H, b, color)).rets

\* the move a LocalEngine chose is the move a MinimaxEngine of the same
\* search_depth picks on the same Board for the same colour
LocalEngineChoosesAsMinimaxEngine ==
    (/\ last'.op = "_ai_move"
     /\ last'.valid_moves # <<>>)
    => MinimaxEnginePicks(heap, board, engine.board_size, engine.search_depth,
                          last'.color) = {last'.move}

\* C20: at a root searched with the full window, _minimax returns the first
\* move in row-major order whose exact minimax value is the maximum (the
\* minimum at a minimizing root), no later sibling replacing it; hence the move
\* LocalEngine chooses at a depth is the move MinimaxEngine picks with
\* randomize_moves=False at the same depth.
C20_LocalEngineMovesAsMinimaxEngine ==
    /\ []RootKeepsTheFirstBest
    /\ [][LocalEngineChoosesAsMinimaxEngine]_vars

----------------------------------------------------------------------------
(* C21 *)

\* a Board of its own with the grid of b and current_player = player
SameGridFor(H, e, b, player) ==
    board_from_state_string(H, Self(H, b).size, _emit_board_update(H, e, b).state, player)

\* the value of the node (made, player, depth) searched with the full window
ValueOf(made, e, player, depth) ==
    RootSearch(made.H, e, made.ret, player, depth).score

\* the root of the last search had to pass: depth left, no move for the
\* player
RootWithoutMove ==
    /\ last.op = "_minimax"
    /\ last.depth > 0
    /\ get_valid_moves(heap, copy[1], last.player) = <<>>

PassCostsOnePly ==
    RootWithoutMove =>
        IF has_valid_move(heap, copy[1], Opponent(last.player))
        THEN last.score = ValueOf(SameGridFor(heap, engine, copy[1], Opponent(last.player)),
                                  engine, Opponent(last.player), last.depth - 1)
        ELSE /\ last.move = NoMove
             /\ last.score = _evaluate_board(heap, engine, copy[1])

SearchLeavesTheBoard ==
    last'.op = "_minimax" => BoardView(heap', copy'[1]) = BoardView(heap, copy[1])

\* C21: a forced pass inside the search costs exactly one ply and never
\* changes the grid. With depth d > 0 left, no legal move for the side to move
\* and one for the opponent, the value of (board, player, d) is the value of
\* (board', opponent, d - 1), board' having the same grid and the opponent to
\* move; when neither side has a move the node is terminal and its value is
\* the static evaluation.
C21_PassCostsOnePly ==
    /\ []PassCostsOnePly
    /\ [][SearchLeavesTheBoard]_vars

\* a root that passed to an opponent who then moved, two plies or more left,
\* and a value that is not the static evaluation of the root
C21_Witness ==
    /\ RootWithoutMove
    /\ last.depth >= 2
    /\ has_valid_move(heap, copy[1], Opponent(last.player))
    /\ last.move # NoMove
    /\ last.score # _evaluate_board(heap, engine, copy[1])

----------------------------------------------------------------------------
(* C22 *)

\* the cells of the grid g that hold v
Holding(g, size, v) == {m \in (0..size - 1) \X (0..size - 1) : g[m[1]][m[2]] = v}

\* the cells where player may play on g, by the rule of the game
LegalCells(g, size, player) ==
    {m \in (0..size - 1) \X (0..size - 1) : LegalByRule(g, size, m[1], m[2], player)}

CornerCells(size) == {0, size - 1} \X {0, size - 1}

\* twice the static evaluation of the grid g for the colour S: discs,
\* mobility and corners, each as S's count less the opponent's
TwiceStaticValue(g, size, S) ==
    3 * (Cardinality(Holding(g, size, S)) - Cardinality(Holding(g, size, Opponent(S))))
    + 10 * (Cardinality(LegalCells(g, size, S)) - Cardinality(LegalCells(g, size, Opponent(S))))
    + 50 * (Cardinality(Holding(g, size, S) \cap CornerCells(size))
            - Cardinality(Holding(g, size, Opponent(S)) \cap CornerCells(size)))

\* a Board of its own with the grid g and current_player = player
BoardOf(H, size, g, player) ==
    board_from_state_string(H, size,
        [i \in 1..size * size |-> PieceChar(g[CellAt(size, i)[1]][CellAt(size, i)[2]])],
        player)

\* the values of the positions player's moves on the grid g lead to, each
\* searched depth plies deep for the side to move there
ValuesAfterMoves(H, e, g, size, player, depth) ==
    {ValueOf(BoardOf(H, size, GridByRule(g, size, m[1], m[2], player), Opponent(player)),
             e, Opponent(player), depth) : m \in LegalCells(g, size, player)}

Largest(S) == CHOOSE x \in S : \A y \in S : y <= x

Smallest(S) == CHOOSE x \in S : \A y \in S : x <= y

RootIsTerminal ==
    /\ last.op = "_minimax"
    /\ \/ last.depth = 0
       \/ \A color \in Colors : LegalCells(GridOf(heap, copy[1]), Self(heap, copy[1]).size, color) = {}

\* C22: terminal nodes are evaluated for the searching colour, not for the
\* side to move. At depth 0 or on a finished game _minimax returns no move and
\* the evaluation of the board for the colour the search was started for,
\* whoever is to move at the node; and the position a move leads to is
\* searched for the player that is to move on the clone after the move.
C22_LeavesAreScoredForTheSearcher ==
    /\ RootIsTerminal =>
          /\ last.move = NoMove
          /\ last.score = TwiceStaticValue(GridOf(heap, copy[1]), Self(heap, copy[1]).size, last.color)
    /\ (/\ last.op = "_minimax"
        /\ ~RootIsTerminal
        /\ LegalCells(GridOf(heap, copy[1]), Self(heap, copy[1]).size, last.player) # {})
       => last.score =
            IF last.player = last.color
            THEN Largest(ValuesAfterMoves(heap, engine, GridOf(heap, copy[1]), Self(heap, copy[1]).size,
                                          last.player, last.depth - 1))
            ELSE Smallest(ValuesAfterMoves(heap, engine, GridOf(heap, copy[1]), Self(heap, copy[1]).size,
                                           last.player, last.depth - 1))

\* a finished game met with plies left, the player to move not being the
\* searching colour, and the searching colour ahead
C22_Witness ==
    /\ RootIsTerminal
    /\ last.depth > 0
    /\ last.player # last.color
    /\ last.color # Self(heap, copy[1]).current_player
    /\ last.score > 0

----------------------------------------------------------------------------
(* C23 *)

DiscLead(g, size, S) ==
    Cardinality(Holding(g, size, S)) - Cardinality(Holding(g, size, Opponent(S)))

MobilityLead(g, size, S) ==
    Cardinality(LegalCells(g, size, S)) - Cardinality(LegalCells(g, size, Opponent(S)))

CornerLead(g, size, S) ==
    Cardinality(Holding(g, size, S) \cap CornerCells(size))
        - Cardinality(Holding(g, size, Opponent(S)) \cap CornerCells(size))

\* C23: the static evaluation of a board for the searching colour S is
\* 1.5 * disc difference + 5 * mobility difference + 25 * corner difference
\* (twice the score is 3, 10 and 50 times the differences), mobility being the
\* number of legal moves and corners the number of the four corner cells held;
\* the evaluation of the same board for the opponent is exactly the negated
\* value.
C23_StaticEvaluation ==
    last.op = "_evaluate_board" =>
        /\ last.ret = 3 * DiscLead(GridOf(heap, copy[1]), Self(heap, copy[1]).size, last.color)
                      + 10 * MobilityLead(GridOf(heap, copy[1]), Self(heap, copy[1]).size, last.color)
                      + 50 * CornerLead(GridOf(heap, copy[1]), Self(heap, copy[1]).size, last.color)
        /\ _evaluate_board(heap, [engine EXCEPT !._search_color = Opponent(last.color)],
                           copy[1]) = 0 - last.ret

\* an evaluation in which mobility and corners count, a corner of the last
\* row among them
C23_Witness ==
    /\ last.op = "_evaluate_board"
    /\ MobilityLead(GridOf(heap, copy[1]), Self(heap, copy[1]).size, last.color) # 0
    /\ CornerLead(GridOf(heap, copy[1]), Self(heap, copy[1]).size, last.color) # 0
    /\ \E c \in {0, Self(heap, copy[1]).size - 1} :
          GridOf(heap, copy[1])[Self(heap, copy[1]).size - 1][c] # EMPTY

----------------------------------------------------------------------------
(* C24 *)

\* the scored moves of the last _pick_move
LastScored == _score_moves(heap, engine, copy[1], last.color).ret

\* the K-th highest of the scores, the lowest where there are fewer than K
KthHighest(move_scores, K) ==
    CHOOSE v \in {move_scores[i].score : i \in 1..Len(move_scores)} :
        /\ Cardinality({i \in 1..Len(move_scores) : move_scores[i].score > v})
              < Min(K, Len(move_scores))
        /\ Cardinality({i \in 1..Len(move_scores) : move_scores[i].score >= v})
              >= Min(K, Len(move_scores))

\* the moves of a list of scored moves
MovesOf(items) == {items[i].move : i \in 1..Len(items)}

\* the moves scoring at least v
ScoringAtLeast(move_scores, v) ==
    {move_scores[i].move : i \in {j \in 1..Len(move_scores) : move_scores[j].score >= v}}

ScoringExactly(move_scores, v) ==
    {move_scores[i].move : i \in {j \in 1..Len(move_scores) : move_scores[j].score = v}}

CandidateMoves(e, move_scores) == MovesOf(_top_candidates(e, move_scores))

\* what is said of the candidates and of the move returned, for the scored
\* moves, K and the cutoff score
TopKOfTheScores(move_scores, K, cutoff, candidates, move) ==
    /\ candidates = ScoringAtLeast(move_scores, cutoff)
    /\ FirstBest(move_scores).move \in candidates
    /\ Cardinality(candidates) >= Min(K, Len(move_scores))
    /\ Cardinality(candidates) > K =>
          /\ Cardinality(ScoringExactly(move_scores, cutoff)) >= 2
          /\ Cardinality(candidates \ ScoringExactly(move_scores, cutoff)) < K
    /\ move \in candidates

TopKOfTheCandidates(e, move_scores, move) ==
    TopKOfTheScores(move_scores, e.selection_top_k,
                    KthHighest(move_scores, e.selection_top_k),
                    CandidateMoves(e, move_scores), move)

\* C24: with randomization on, the candidates are exactly the moves whose
\* score is at least the K-th highest score, K = selection_top_k (the lowest
\* score when there are fewer than K moves). The set holds the arg-max move,
\* has at least min(K, n) members, has more than K only by ties at the cutoff
\* score, and the move the randomized selection returns is one of the set.
C24_CandidatesAreTheTopK ==
    (last.op = "_pick_move" /\ engine.randomize_moves) =>
        TopKOfTheCandidates(engine, LastScored, last.move)

\* the witness below, for the scored moves and the candidates
MoreThanKByATie(move_scores, K, candidates, move) ==
    /\ K >= 2
    /\ Cardinality(candidates) > K
    /\ Cardinality(candidates) < Len(move_scores)
    /\ move # FirstBest(move_scores).move

MoreThanKAmong(e, move_scores, move) ==
    MoreThanKByATie(move_scores, e.selection_top_k, CandidateMoves(e, move_scores), move)

\* more candidates than K by a tie at the cutoff score, a move left out, and
\* a move returned that is not the arg-max move
C24_Witness ==
    /\ last.op = "_pick_move"
    /\ engine.randomize_moves
    /\ MoreThanKAmong(engine, LastScored, last.move)

----------------------------------------------------------------------------
(* C25 *)

\* the threads that call self.board.pass_turn(color) in the step: those at
\* _emit_pass before it that have returned after it
PassingThreads == {t \in DOMAIN workers : workers[t].pc = "_emit_pass" /\ t \notin DOMAIN workers'}

\* C25: the protocol layer honours the pass obligation. In every execution,
\* the interleavings with a GENMOVE thread included, a driver calls
\* Board.pass_turn(color) only when has_valid_move(color) is false on the
\* engine's board at the moment of the call.
C25_PassOnlyWithoutMoves ==
    [][\A t \in PassingThreads : ~has_valid_move(heap, board, workers[t].color)]_vars

----------------------------------------------------------------------------
(* C26 *)

\* a search of depth plies puts at most one disc a ply on a Board and, with
\* no ply to go, makes no Board at all
WithinThePlies(depth, made, grown) ==
    /\ depth <= 0 => made = 0
    /\ grown <= Max(depth, 0)

\* C26: every search call ends, bounded by the depth parameter alone. Each
\* recursive _minimax call, for a move or a forced pass, has one ply less to
\* go and the recursion stops at depth 0 or at the end of the game, so a
\* search started with depth d never goes more than d plies below the root,
\* whatever the board.
C26_SearchStaysWithinItsDepth ==
    last.op = "_minimax" => WithinThePlies(last.depth, last.made, last.grown)

----------------------------------------------------------------------------
(* C27 *)

\* C27: the search depth actually used is always at least 1. Whatever
\* search_depth an engine is constructed with, 0 and the negative integers
\* included, it searches with a depth of 1 or more, so a search on a position
\* with legal moves never stops at the root without evaluating the moves.
C27_DepthIsAtLeastOne ==
    /\ engine.search_depth >= 1
    /\ (last.op = "_ai_move" /\ last.valid_moves # <<>>) => last.returned # NoMove

----------------------------------------------------------------------------
(* C28 *)

\* the occupied cells of a grid
OccupiedOn(g, size) ==
    Cardinality({m \in (0..size - 1) \X (0..size - 1) : g[m[1]][m[2]] # EMPTY})

Occupied(H, b) == OccupiedOn(GridOf(H, b), Self(H, b).size)

\* the grids the Board has been through, oldest first: those of its history
\* entries, then the one it holds
GridsSince(H, b) ==
    [i \in 1..Len(Self(H, b).history) |-> H.grids[Self(H, b).history[i].grid]]
        \o <<GridOf(H, b)>>

\* the history entries a play_move pushed: the next grid has a disc more
PlayEntries(H, b) ==
    {i \in 1..Len(Self(H, b).history) :
        OccupiedOn(GridsSince(H, b)[i + 1], Self(H, b).size)
            = OccupiedOn(GridsSince(H, b)[i], Self(H, b).size) + 1}

\* and those a pass_turn pushed: the next grid is the same
PassEntries(H, b) ==
    {i \in 1..Len(Self(H, b).history) : GridsSince(H, b)[i + 1] = GridsSince(H, b)[i]}

\* the occupied cells are the four of the opening and one for each play_move
\* entry on the history, every entry being a play_move's or a pass_turn's
DiscsMatchTheHistory ==
    /\ OccupiedOn(GridsSince(heap, board)[1], Size) = 4
    /\ PlayEntries(heap, board) \cup PassEntries(heap, board) = 1..Len(History)
    /\ Occupied(heap, board) = 4 + Cardinality(PlayEntries(heap, board))

\* what one call does to the discs and to the history
CallKeepsTheAccount ==
    /\ (last'.op = "play_move" /\ last'.ret) =>
          /\ Occupied(heap', board') = Occupied(heap, board) + 1
          /\ Len(Self(heap', board').history) = Len(History) + 1
    /\ (last'.op = "pass_turn" /\ last'.ret) =>
          /\ Occupied(heap', board') = Occupied(heap, board)
          /\ Len(Self(heap', board').history) = Len(History) + 1
    /\ (last'.op = "undo" /\ last'.ret) =>
          /\ Occupied(heap', board') = OccupiedOn(GridsSince(heap, board)[Len(History)], Size)
          /\ Len(Self(heap', board').history) = Len(History) - 1
    /\ ~last'.ret =>
          /\ GridOf(heap', board') = Grid
          /\ Len(Self(heap', board').history) = Len(History)
    /\ last'.op # "undo" =>
          \A r \in 0..Size - 1, c \in 0..Size - 1 :
             Grid[r][c] # EMPTY => GridOf(heap', board')[r][c] # EMPTY

\* C28: disc accounting over any sequence of operations on a Board made by
\* the constructor. A successful play_move adds exactly one occupied cell,
\* pass_turn adds none, undo brings back the count before the undone call,
\* and only undo empties an occupied cell; so the occupied cells are 4 plus
\* the play_move entries on the history, and the history grows by one with
\* each successful play_move or pass_turn and shrinks by one with each
\* successful undo.
C28_DiscsFollowTheHistory ==
    /\ []DiscsMatchTheHistory
    /\ [][CallKeepsTheAccount]_vars

\* a play_move undone that followed a play_move and a pass_turn
C28_Witness ==
    /\ last.op = "undo"
    /\ last.ret
    /\ Len(History) = 2
    /\ Cardinality(PlayEntries(heap, board)) = 1
    /\ Cardinality(PassEntries(heap, board)) = 1

----------------------------------------------------------------------------
(* C29 *)

\* the turns of the move_log that placed a disc
Placements == {i \in 1..Len(out) : out[i][2] # "PASS"}

\* a turn of the loop places one disc for the player to move, on the cell the
\* engine returned where that is legal and on valid_moves[0] where not, or
\* passes a player without a move to an opponent with one; no pass follows a
\* pass
TurnPlacesOrPasses ==
    /\ last'.op = "play" =>
          /\ last'.color = CurrentPlayer
          /\ LegalByRule(Grid, Size, last'.cell[1], last'.cell[2], CurrentPlayer)
          /\ GridOf(heap', board') =
                GridByRule(Grid, Size, last'.cell[1], last'.cell[2], CurrentPlayer)
          /\ last'.cell = IF last'.picked \in LegalCells(Grid, Size, CurrentPlayer)
                          THEN last'.picked
                          ELSE get_valid_moves(heap, board, CurrentPlayer)[1]
          /\ Occupied(heap', board') = Occupied(heap, board) + 1
    /\ last'.op = "pass" =>
          /\ last'.color = CurrentPlayer
          /\ LegalCells(Grid, Size, CurrentPlayer) = {}
          /\ LegalCells(Grid, Size, Opponent(CurrentPlayer)) # {}
          /\ GridOf(heap', board') = Grid
          /\ Self(heap', board').current_player = Opponent(CurrentPlayer)
          /\ last.op # "pass"
    /\ last'.op # "break"

\* the game is over where play has returned, and the placements are no more
\* than the cells the opening leaves empty
MatchWithinTheBoard ==
    /\ Cardinality(Placements) <= Size * Size - 4
    /\ last.op = "MatchResult" =>
          \A color \in Colors : LegalCells(Grid, Size, color) = {}

\* C29: EngineMatch.play ends for every pair of engines, whatever move
\* (legal, illegal or none) an engine returns. Every turn of the loop either
\* places exactly one disc for current_player (the engine's move, or
\* valid_moves[0] as the fallback) or passes a current_player without a legal
\* move to an opponent who has one, so there are never two passes in a row,
\* at most N*N-4 placements, and the loop is left only when the game is over.
C29_MatchEnds ==
    /\ <>(last.op = "MatchResult")
    /\ []MatchWithinTheBoard
    /\ [][TurnPlacesOrPasses]_vars

\* a match that has returned with a pass and at least eight placements in its
\* move_log
C29_Witness ==
    /\ last.op = "MatchResult"
    /\ \E i \in 1..Len(out) : out[i][2] = "PASS"
    /\ Cardinality(Placements) >= 8

----------------------------------------------------------------------------
(* C30 *)

\* the places of the messages with this tag in a step's output
Tagged(messages, tag) == {i \in 1..Len(messages) : messages[i].tag = tag}

\* the RESULT message the rules ask for on a grid: none while a colour has a
\* legal cell, else the colour with strictly more discs, DRAW when equal
ResultByRule(g, size) ==
    IF \E color \in Colors : LegalCells(g, size, color) # {} THEN <<>>
    ELSE << [tag |-> "RESULT",
             winner |-> IF Cardinality(Holding(g, size, BLACK))
                             > Cardinality(Holding(g, size, WHITE)) THEN "BLACK"
                        ELSE IF Cardinality(Holding(g, size, WHITE))
                                  > Cardinality(Holding(g, size, BLACK)) THEN "WHITE"
                        ELSE "DRAW"] >>

\* a PLAY that was accepted: OK, the BOARD update, then the result of the
\* board the move left
PlayAnnouncesTheResult ==
    (/\ engine._running
     /\ out' # <<>>
     /\ out'[1].tag = "OK"
     /\ Occupied(heap', board') = Occupied(heap, board) + 1)
    => /\ Len(out') >= 2
       /\ out'[2].tag = "BOARD"
       /\ SubSeq(out', 3, Len(out')) = ResultByRule(GridOf(heap', board'), Size)

\* the threads that make their _check_game_state call in this step
CheckingThreads ==
    {t \in DOMAIN workers : workers[t].pc = "_check_game_state" /\ t \notin DOMAIN workers'}

\* the thread's check, made after its BOARD update, sends the result of the
\* grid its move or pass left
ThreadAnnouncesTheResult ==
    \A t \in CheckingThreads : out' = ResultByRule(last.grid, Size)

\* C30: after every engine action that changes the authoritative board by a
\* move or a pass (PLAY, the move of a GENMOVE thread, the pass of a GENMOVE
\* thread, PASS), a RESULT message is sent if and only if neither colour has
\* a legal move on the board that action left; it is sent after the action's
\* BOARD update, and its winner is BLACK or WHITE by the strictly larger disc
\* count and DRAW when the counts are equal.
C30_ResultIffGameOver == [][PlayAnnouncesTheResult /\ ThreadAnnouncesTheResult]_vars

====
